---- MODULE Spec2Model ----
(***************************************************************************)
(* Model of the command executor of the inventory NLP parser               *)
(* (supabase/functions/nlp-parser/index.ts): executeAction and the entity  *)
(* resolvers it calls, run against the relational store it addresses       *)
(* (products, warehouses, suppliers, product_warehouse, orders,            *)
(* transactions).                                                          *)
(*                                                                         *)
(* Values that cross the interpreter boundary are JavaScript values and    *)
(* keep their type: a parameter is undefined, a number or a string, and    *)
(* text is a sequence of characters, so that case folding, substring       *)
(* search and pattern matching are computed, not assumed.  A nullable      *)
(* store column (product_warehouse.stock) holds a number or NULL.          *)
(*                                                                         *)
(* One step of the model is one command: the whole handler, from entity    *)
(* resolution to the returned envelope.  SpecRace alone runs several       *)
(* commands at once, one store call per step.  The actor (employee id) and *)
(* the timestamps the handlers write are left out: no handler reads them.  *)
(* The orders table is the one the handlers address: its column `quantity` *)
(* is decremented by each receipt and so holds the remaining quantity.     *)
(***************************************************************************)
EXTENDS Integers, Sequences, FiniteSets, TLC

VARIABLES
  products,           \* table products: pid (the index) -> row
  warehouses,         \* table warehouses: w_id (the index) -> row
  suppliers,          \* table suppliers: sup_id (the index) -> row
  product_warehouse,  \* table product_warehouse: <<pid, w_id>> -> stock, for the rows that exist
  orders,             \* table orders: po_id (the index) -> row
  transactions,       \* table transactions, in insertion order (t_id is the index)
  cmd,                \* the proposal {action, params, message} of the last command
  result,             \* the envelope the last command returned
  origQuantity,       \* history: po_id -> the quantity the order was inserted with
  calls               \* the commands in progress: the position and the local values of each

store == <<products, warehouses, suppliers, product_warehouse, orders, transactions>>
vars == <<products, warehouses, suppliers, product_warehouse, orders, transactions,
          cmd, result, origQuantity, calls>>

----------------------------------------------------------------------------
(* Bounds of the model.                                                    *)

MaxTx == 2        \* rows of the transaction log
MaxOrders == 2    \* rows of the orders table
MaxRows == 6      \* rows of the reference tables together (products, warehouses, suppliers)
MaxQty == 2       \* largest quantity parameter explored
MaxCalls == 2     \* commands in progress at once

----------------------------------------------------------------------------
(* JavaScript values.                                                      *)

Undefined == [t |-> "undefined"]
Null == [t |-> "null"]
Num(n) == [t |-> "number", n |-> n]
Str(s) == [t |-> "string", s |-> s]
NaN == [t |-> "NaN"]

IsNum(v) == v.t = "number"
IsStr(v) == v.t = "string"

\* !v
Falsy(v) ==
  \/ v.t \in {"undefined", "null", "NaN"}
  \/ (IsNum(v) /\ v.n = 0)
  \/ (IsStr(v) /\ v.s = <<>>)

Truthy(v) == ~Falsy(v)

\* a || b
JsOr(a, b) == IF Truthy(a) THEN a ELSE b

\* ToNumber of a stock or quantity value: null is 0, undefined is NaN
ToNumber(v) ==
  IF IsNum(v) THEN v
  ELSE IF v.t = "null" THEN Num(0)
  ELSE NaN

\* a < b on numbers: false as soon as one side is NaN
JsLt(a, b) ==
  LET x == ToNumber(a)
      y == ToNumber(b)
  IN IsNum(x) /\ IsNum(y) /\ x.n < y.n

\* a subtraction that takes nothing away
Kept(a, b) == ToNumber(a)

\* a - b and a + b on numbers
JsSub(a, b) ==
  LET x == ToNumber(a)
      y == ToNumber(b)
  IN IF IsNum(x) /\ IsNum(y) THEN Num(x.n - y.n) ELSE NaN

JsAdd(a, b) ==
  LET x == ToNumber(a)
      y == ToNumber(b)
  IN IF IsNum(x) /\ IsNum(y) THEN Num(x.n + y.n) ELSE NaN

\* JSON.stringify of a request body: NaN is sent as null
Json(v) == IF v.t = "NaN" THEN Null ELSE v

----------------------------------------------------------------------------
(* Text.                                                                   *)

LowerChar(c) ==
  CASE c = "A" -> "a"
    [] c = "B" -> "b"
    [] c = "C" -> "c"
    [] c = "D" -> "d"
    [] c = "E" -> "e"
    [] c = "M" -> "m"
    [] c = "S" -> "s"
    [] c = "W" -> "w"
    [] OTHER -> c

\* String.prototype.toLowerCase
toLowerCase(s) == [i \in 1 .. Len(s) |-> LowerChar(s[i])]

\* String.prototype.includes
includes(s, sub) ==
  \E i \in 0 .. (Len(s) - Len(sub)) : SubSeq(s, i + 1, i + Len(sub)) = sub

\* s.split(' ')[0]: the text before the first space
RECURSIVE FirstWord(_)
FirstWord(s) ==
  IF s = <<>> \/ Head(s) = " " THEN <<>>
  ELSE <<Head(s)>> \o FirstWord(Tail(s))

\* s.split(/\s+/): the maximal runs without a space (with the empty first
\* or last piece JavaScript yields for leading or trailing space)
RECURSIVE SplitSpaces(_, _)
SplitSpaces(s, cur) ==
  IF s = <<>> THEN <<cur>>
  ELSE IF Head(s) = " "
       THEN IF Len(s) > 1 /\ s[2] = " "
            THEN SplitSpaces(Tail(s), cur)
            ELSE <<cur>> \o SplitSpaces(Tail(s), <<>>)
       ELSE SplitSpaces(Tail(s), Append(cur, Head(s)))

\* the text a template literal or a filter value makes of a parameter
RECURSIVE Digits(_)
Digits(n) ==
  IF n < 10 THEN <<CASE n = 0 -> "0" [] n = 1 -> "1" [] n = 2 -> "2" [] n = 3 -> "3"
                     [] n = 4 -> "4" [] n = 5 -> "5" [] n = 6 -> "6" [] n = 7 -> "7"
                     [] n = 8 -> "8" [] OTHER -> "9">>
  ELSE Digits(n \div 10) \o Digits(n % 10)

String(v) ==
  CASE IsStr(v) -> v.s
    [] IsNum(v) -> IF v.n < 0 THEN <<"-">> \o Digits(0 - v.n) ELSE Digits(v.n)
    [] OTHER -> <<"u", "n", "d", "e", "f", "i", "n", "e", "d">>

\* PostgreSQL ILIKE: case-insensitive, % matches any run, _ any one character
RECURSIVE Like(_, _)
Like(text, pattern) ==
  IF pattern = <<>> THEN text = <<>>
  ELSE IF Head(pattern) = "%"
       THEN Like(text, Tail(pattern)) \/ (text # <<>> /\ Like(Tail(text), pattern))
       ELSE /\ text # <<>>
            /\ (Head(pattern) = "_" \/ Head(pattern) = Head(text))
            /\ Like(Tail(text), Tail(pattern))

ilike(text, pattern) == Like(toLowerCase(text), toLowerCase(pattern))

----------------------------------------------------------------------------
(* Entity resolution.  A lookup yields the set of rows the store may       *)
(* return: .limit(1) without an ORDER BY returns any one of the matching   *)
(* rows.  0 stands for "no row" (data: null).                              *)

Contains(identifier) == <<"%">> \o String(identifier) \o <<"%">>

ById(table, identifier) ==
  IF identifier.n \in DOMAIN table THEN {identifier.n} ELSE {0}

OneOf(rows) == IF rows = {} THEN {0} ELSE rows

findProduct(identifier) ==
  IF IsNum(identifier) THEN ById(products, identifier)
  ELSE LET exactMatch == {p \in DOMAIN products :
                            ilike(products[p].p_name, String(identifier))}
           data == {p \in DOMAIN products :
                      ilike(products[p].p_name, Contains(identifier))}
       IN IF exactMatch # {} THEN exactMatch ELSE OneOf(data)

findProductExact(identifier) ==
  IF IsNum(identifier) THEN ById(products, identifier)
  ELSE OneOf({p \in DOMAIN products : ilike(products[p].p_name, String(identifier))})

findWarehouse(identifier) ==
  IF IsNum(identifier) THEN ById(warehouses, identifier)
  ELSE LET exactMatch == {w \in DOMAIN warehouses :
                            ilike(warehouses[w].w_name, String(identifier))}
           data == {w \in DOMAIN warehouses :
                      ilike(warehouses[w].w_name, Contains(identifier))}
       IN IF exactMatch # {} THEN exactMatch ELSE OneOf(data)

findSupplier(identifier) ==
  IF Falsy(identifier) THEN {0}
  ELSE IF IsNum(identifier) THEN ById(suppliers, identifier)
  ELSE OneOf({s \in DOMAIN suppliers : ilike(suppliers[s].s_name, Contains(identifier))})

\* the pids of a table in row order
Ids(table) == [i \in 1 .. Len(table) |-> i]

Slice5(s) == SubSeq(s, 1, IF Len(s) < 5 THEN Len(s) ELSE 5)

\* findSimilarProducts, for an identifier that has toLowerCase (a string)
SimilarTo(p_name, searchTerm) ==
  LET split == SplitSpaces(searchTerm, <<>>)
      words == SelectSeq(split, LAMBDA w : Len(w) > 2)
      name == toLowerCase(p_name)
      first == SplitSpaces(name, <<>>)[1]
  IN \E i \in 1 .. Len(words) : includes(name, words[i]) \/ includes(words[i], first)

findSimilarProducts(identifier) ==
  LET searchTerm == toLowerCase(identifier.s)
  IN Slice5(SelectSeq(Ids(products), LAMBDA p : SimilarTo(products[p].p_name, searchTerm)))

----------------------------------------------------------------------------
(* Store calls.                                                            *)

\* .from('product_warehouse').select('stock').eq(pid).eq(w_id): the row or null
selectStock(pw, pid, w_id) ==
  IF <<pid, w_id>> \in DOMAIN pw THEN [stock |-> pw[<<pid, w_id>>]] ELSE Null

\* .update({ stock }) of the row (pid, w_id); NaN is serialised as null
updateStock(pw, pid, w_id, stock) ==
  IF <<pid, w_id>> \in DOMAIN pw
  THEN [pw EXCEPT ![<<pid, w_id>>] = Json(stock)]
  ELSE pw

\* an insert that leaves the stock to the column default
insertDefault(pw, pid, w_id, stock) ==
  IF <<pid, w_id>> \in DOMAIN pw THEN pw
  ELSE [k \in DOMAIN pw \cup {<<pid, w_id>>} |->
          IF k = <<pid, w_id>> THEN Num(0) ELSE pw[k]]

\* .insert({ pid, w_id, stock }); an undefined stock is left to the column
\* default 0, a second row for the key is refused by the primary key
insertStock(pw, pid, w_id, stock) ==
  IF <<pid, w_id>> \in DOMAIN pw THEN pw
  ELSE [k \in DOMAIN pw \cup {<<pid, w_id>>} |->
          IF k = <<pid, w_id>>
          THEN (IF stock.t = "undefined" THEN Num(0) ELSE Json(stock))
          ELSE pw[k]]

\* an insert that overwrites the newest row of the log
overwriteTransaction(log, row) ==
  IF IsNum(row.amt) /\ log # <<>>
  THEN [log EXCEPT ![Len(log)] = [row EXCEPT !.amt = row.amt.n]]
  ELSE log

\* .from('transactions').insert(row): amt is NOT NULL, so a row whose amt is
\* undefined is refused (the handlers do not look at the error)
insertTransaction(log, row) ==
  IF IsNum(row.amt) THEN Append(log, [row EXCEPT !.amt = row.amt.n]) ELSE log

Transaction(amt, type, pid, w_id, target_w_id, po_id) ==
  [amt |-> amt, type |-> type, pid |-> pid, w_id |-> w_id,
   target_w_id |-> target_w_id, po_id |-> po_id]

----------------------------------------------------------------------------
(* Proposals and envelopes.                                                *)

NoParams ==
  [product |-> Undefined, warehouse |-> Undefined, from_warehouse |-> Undefined,
   to_warehouse |-> Undefined, supplier |-> Undefined, quantity |-> Undefined,
   order_id |-> Undefined, status |-> Undefined, unit_price |-> Undefined,
   name |-> Undefined, price |-> Undefined]

\* parsed = { action, params, message }; hasParams is false when the
\* interpreter sent no params object
Proposal(action, params) ==
  [action |-> action, hasParams |-> TRUE, params |-> params, message |-> Undefined]

\* the action of a proposal that has none: it matches no case of the switch
NoAction == ""

Bare(action, message) ==
  [action |-> action, hasParams |-> FALSE, params |-> NoParams, message |-> message]

Envelope(action, success, message) ==
  [action |-> action, success |-> success, message |-> message,
   requiresBillUpload |-> FALSE, orderId |-> 0,
   suggestedProducts |-> <<>>, pendingOrders |-> <<>>, entity |-> "", data |-> <<>>,
   status |-> 200]

\* the top-level catch of serve(): a thrown error becomes the 500 envelope
Error500 ==
  [Envelope("ERROR", FALSE, "An error occurred processing your command.")
     EXCEPT !.status = 500]

Fail(action, message) == Envelope(action, FALSE, message)

\* a success that asks for a bill
OkWithBill(action, message) ==
  [Envelope(action, TRUE, message) EXCEPT !.requiresBillUpload = TRUE]

Ok(action, message) == Envelope(action, TRUE, message)

\* a handler that returns before its first write
Return(envelope) ==
  /\ result' = envelope
  /\ UNCHANGED <<products, warehouses, suppliers, product_warehouse, orders,
                 transactions, origQuantity>>

----------------------------------------------------------------------------
(* Stock-movement handlers.                                                *)

\* a sufficiency check that only looks for the row
RowMissing(currentStock, quantity) == currentStock = Null

\* !currentStock || currentStock.stock < quantity
InsufficientStock(currentStock, quantity) ==
  currentStock = Null \/ JsLt(currentStock.stock, quantity)

\* an upsert that replaces the stored quantity
SetStock(pw, pid, w_id, quantity) ==
  IF selectStock(pw, pid, w_id) # Null
  THEN updateStock(pw, pid, w_id, quantity)
  ELSE insertStock(pw, pid, w_id, quantity)

\* the "if (row) update stock + quantity else insert quantity" of RETURN_STOCK,
\* RECEIVE_ORDER and the destination side of a transfer
AddStock(pw, pid, w_id, quantity) ==
  LET currentStock == selectStock(pw, pid, w_id)
  IN IF currentStock # Null
     THEN updateStock(pw, pid, w_id, JsAdd(currentStock.stock, quantity))
     ELSE insertStock(pw, pid, w_id, quantity)

\* update of the source row, then the upsert of the destination row, which
\* reads the table after the first write
\* a transfer that leaves the source as it was
CopyStock(pw, pid, from, to, sourceStock, quantity) ==
  AddStock(pw, pid, to, quantity)

MoveStock(pw, pid, from, to, sourceStock, quantity) ==
  AddStock(updateStock(pw, pid, from, JsSub(sourceStock.stock, quantity)),
           pid, to, quantity)

TAKE_STOCK(parsed) ==
  LET action == parsed.action
      params == parsed.params
  IN
  /\ cmd' = parsed
  /\ IF ~parsed.hasParams THEN Return(Error500)
     ELSE \E product \in findProduct(params.product),
             warehouse \in findWarehouse(params.warehouse) :
       IF product = 0 \/ warehouse = 0
       THEN Return(Fail(action, IF product = 0 THEN "Could not find product"
                                               ELSE "Could not find warehouse"))
       ELSE LET currentStock == selectStock(product_warehouse, product, warehouse)
            IN IF InsufficientStock(currentStock, params.quantity)
               THEN Return(Fail(action, "Insufficient stock"))
               ELSE /\ product_warehouse' =
                         updateStock(product_warehouse, product, warehouse,
                                     JsSub(currentStock.stock, params.quantity))
                    /\ transactions' =
                         insertTransaction(transactions,
                           Transaction(params.quantity, "take", product, warehouse, 0, 0))
                    /\ result' = Ok(action, "Successfully took")
                    /\ UNCHANGED <<products, warehouses, suppliers, orders, origQuantity>>

RETURN_STOCK(parsed) ==
  LET action == parsed.action
      params == parsed.params
  IN
  /\ cmd' = parsed
  /\ IF ~parsed.hasParams THEN Return(Error500)
     ELSE \E product \in findProduct(params.product),
             warehouse \in findWarehouse(params.warehouse) :
       IF product = 0 \/ warehouse = 0
       THEN Return(Fail(action, IF product = 0 THEN "Could not find product"
                                               ELSE "Could not find warehouse"))
       ELSE /\ product_warehouse' =
                 AddStock(product_warehouse, product, warehouse, params.quantity)
            /\ transactions' =
                 insertTransaction(transactions,
                   Transaction(params.quantity, "return", product, warehouse, 0, 0))
            /\ result' = Ok(action, "Successfully returned")
            /\ UNCHANGED <<products, warehouses, suppliers, orders, origQuantity>>

\* TRANSFER_STOCK once the product and both warehouses are resolved: the
\* envelope and the two tables it leaves
transferStock(action, product, fromWarehouse, toWarehouse, quantity) ==
  LET sourceStock == selectStock(product_warehouse, product, fromWarehouse)
  IN IF InsufficientStock(sourceStock, quantity)
     THEN [result |-> Fail(action, "Insufficient stock at source warehouse"),
           product_warehouse |-> product_warehouse,
           transactions |-> transactions]
     ELSE [result |-> Ok(action, "Transferred"),
           product_warehouse |->
             MoveStock(product_warehouse, product, fromWarehouse, toWarehouse,
                       sourceStock, quantity),
           transactions |->
             insertTransaction(transactions,
               Transaction(quantity, "transfer", product, fromWarehouse, toWarehouse, 0))]

TRANSFER_STOCK(parsed) ==
  LET action == parsed.action
      params == parsed.params
  IN
  /\ cmd' = parsed
  /\ IF ~parsed.hasParams THEN Return(Error500)
     ELSE \E product \in findProduct(params.product),
             fromWarehouse \in findWarehouse(params.from_warehouse),
             toWarehouse \in findWarehouse(params.to_warehouse) :
       IF product = 0 \/ fromWarehouse = 0 \/ toWarehouse = 0
       THEN Return(Fail(action, "Could not find product or warehouse(s)"))
       ELSE LET done == transferStock(action, product, fromWarehouse, toWarehouse,
                                      params.quantity)
            IN /\ result' = done.result
               /\ product_warehouse' = done.product_warehouse
               /\ transactions' = done.transactions
               /\ UNCHANGED <<products, warehouses, suppliers, orders, origQuantity>>

\* the keys <<pid, w_id>> of product_warehouse in key order
RECURSIVE SeqOf(_)
SeqOf(S) ==
  IF S = {} THEN <<>>
  ELSE LET k == CHOOSE x \in S :
                  \A y \in S : x[1] < y[1] \/ (x[1] = y[1] /\ x[2] <= y[2])
       IN <<k>> \o SeqOf(S \ {k})

\* .eq('pid', pid).gte('stock', quantity): a NULL stock satisfies no comparison
stockLocations(pid, quantity) ==
  {w \in DOMAIN warehouses :
     /\ <<pid, w>> \in DOMAIN product_warehouse
     /\ IsNum(product_warehouse[<<pid, w>>])
     /\ product_warehouse[<<pid, w>>].n >= quantity.n}

\* the rows that may come first under .order('stock', descending)
Highest(pid, locations) ==
  {w \in locations :
     \A v \in locations :
       product_warehouse[<<pid, v>>].n <= product_warehouse[<<pid, w>>].n}

\* stockLocations.find(loc => loc.w_id !== toWarehouse.w_id) || stockLocations[0]
sourceLocation(pid, toWarehouse, quantity) ==
  LET locations == stockLocations(pid, quantity)
      preferred == locations \ {toWarehouse}
  IN IF locations = {} THEN {0}
     ELSE IF preferred # {} THEN Highest(pid, preferred)
     ELSE Highest(pid, locations)

\* the StockRecords the failure message of MOVE_PRODUCT names:
\* .eq('pid', pid).gt('stock', 0)
existingStock(pid) ==
  SeqOf({k \in DOMAIN product_warehouse :
           /\ k[1] = pid
           /\ IsNum(product_warehouse[k])
           /\ product_warehouse[k].n > 0})

\* MOVE_PRODUCT once the product, the destination and a source are known
moveProduct(action, product, fromWarehouse, toWarehouse, quantity) ==
  IF fromWarehouse = toWarehouse
  THEN [result |-> Fail(action, "Product is already in"),
        product_warehouse |-> product_warehouse,
        transactions |-> transactions]
  ELSE LET sourceStock == selectStock(product_warehouse, product, fromWarehouse)
       IN IF InsufficientStock(sourceStock, quantity)
          THEN [result |-> Fail(action, "Insufficient stock at"),
                product_warehouse |-> product_warehouse,
                transactions |-> transactions]
          ELSE [result |-> Ok(action, "Moved"),
                product_warehouse |->
                  MoveStock(product_warehouse, product, fromWarehouse, toWarehouse,
                            sourceStock, quantity),
                transactions |->
                  insertTransaction(transactions,
                    Transaction(quantity, "transfer", product, fromWarehouse,
                                toWarehouse, 0))]

MOVE_PRODUCT(parsed) ==
  LET action == parsed.action
      params == parsed.params
  IN
  /\ cmd' = parsed
  /\ IF ~parsed.hasParams THEN Return(Error500)
     ELSE \E product \in findProduct(params.product),
             toWarehouse \in findWarehouse(params.to_warehouse) :
       IF product = 0 THEN Return(Fail(action, "Could not find product"))
       ELSE IF toWarehouse = 0
       THEN Return(Fail(action, "Could not find destination warehouse"))
       ELSE LET quantity == JsOr(params.quantity, Num(1))
            IN \E fromWarehouse \in
                    (IF Truthy(params.from_warehouse)
                     THEN findWarehouse(params.from_warehouse)
                     ELSE sourceLocation(product, toWarehouse, quantity)) :
                 IF fromWarehouse = 0
                 THEN Return([Fail(action, "Could not find sufficient stock")
                                EXCEPT !.data = existingStock(product)])
                 ELSE LET done == moveProduct(action, product, fromWarehouse,
                                              toWarehouse, quantity)
                      IN /\ result' = done.result
                         /\ product_warehouse' = done.product_warehouse
                         /\ transactions' = done.transactions
                         /\ UNCHANGED <<products, warehouses, suppliers, orders,
                                        origQuantity>>

----------------------------------------------------------------------------
(* Order handlers.                                                         *)

\* every status an order can have
AnyStatus ==
  {"pending", "approved", "ordered", "shipped", "partial", "received", "cancelled",
   "reordered"}

OpenStatuses == {"pending", "approved", "ordered", "shipped", "partial"}

\* the statuses UPDATE_ORDER_STATUS searches when it selects by product
ActiveStatuses == {"pending", "approved", "ordered", "shipped"}

\* an order row whose status does not start at the column default
OrderApproved(quantity, p_id, sup_id, target_w_id, price) ==
  [quantity |-> quantity, status |-> "approved", p_id |-> p_id, sup_id |-> sup_id,
   target_w_id |-> target_w_id, price |-> price]

Order(quantity, p_id, sup_id, target_w_id, price) ==
  [quantity |-> quantity, status |-> "pending", p_id |-> p_id, sup_id |-> sup_id,
   target_w_id |-> target_w_id, price |-> price]

\* a status parameter: the text of params.status
Status(s) == [t |-> "string", status |-> s]

IsDigit(c) == c \in {"0", "1", "2", "3", "4", "5", "6", "7", "8", "9"}

DigitValue(c) ==
  CASE c = "0" -> 0 [] c = "1" -> 1 [] c = "2" -> 2 [] c = "3" -> 3 [] c = "4" -> 4
    [] c = "5" -> 5 [] c = "6" -> 6 [] c = "7" -> 7 [] c = "8" -> 8 [] OTHER -> 9

\* parseFloat on the texts of the model (no sign, no fraction): the number
\* its leading digits spell, NaN when it does not start with a digit
RECURSIVE LeadingDigits(_, _)
LeadingDigits(s, acc) ==
  IF s = <<>> \/ ~IsDigit(Head(s)) THEN acc
  ELSE LeadingDigits(Tail(s), 10 * acc + DigitValue(Head(s)))

parseFloat(s) ==
  IF s = <<>> \/ ~IsDigit(Head(s)) THEN NaN ELSE Num(LeadingDigits(s, 0))

\* String(unit_price).replace(/[$,]/g, '') and parseFloat; null (here NaN)
\* when the parameter is falsy or does not parse
parseUnitPrice(unit_price) ==
  IF Falsy(unit_price) THEN NaN
  ELSE parseFloat(SelectSeq(String(unit_price), LAMBDA c : c \notin {"$", ","}))

\* the product filter of RECEIVE_ORDER and UPDATE_ORDER_STATUS
MatchesProduct(p_name, product) ==
  LET productSearch == toLowerCase(product.s)
      productName == toLowerCase(p_name)
  IN includes(productName, productSearch)
       \/ includes(productSearch, FirstWord(productName))

\* po_ids of the orders whose status is in the given set, in row order
OrdersIn(statuses) ==
  SelectSeq(Ids(orders), LAMBDA o : orders[o].status \in statuses)

\* a selection that takes the first candidate
NeverMultiple(found) == FALSE

\* finalOrders.length > 1, allOrders.length > 1
Multiple(found) == Len(found) > 1

\* a validation that lets every amount through
NoLimit(receivedQuantity, orderQuantity) == FALSE

\* receivedQuantity > orderQuantity
OverReceipt(receivedQuantity, orderQuantity) == receivedQuantity > orderQuantity

\* a receipt that always closes the order
AlwaysReceived(remainingQuantity) == "received"

\* isPartialReceive ? 'partial' : 'received'
ReceiveStatus(remainingQuantity) ==
  IF remainingQuantity > 0 THEN "partial" ELSE "received"

\* an order that needs no target warehouse
WarehouseOptional(params) == FALSE

\* if (!params.warehouse)
NoWarehouse(params) == Falsy(params.warehouse)

CREATE_ORDER(parsed) ==
  LET action == parsed.action
      params == parsed.params
  IN
  /\ cmd' = parsed
  /\ IF ~parsed.hasParams THEN Return(Error500)
     ELSE IF NoWarehouse(params)
     THEN Return(Fail(action, "Please specify the target warehouse"))
     ELSE \E warehouse \in findWarehouse(params.warehouse),
             supplier \in findSupplier(params.supplier),
             found \in findProductExact(params.product) :
       IF warehouse = 0 THEN Return(Fail(action, "Could not find warehouse"))
       ELSE IF Truthy(params.supplier) /\ supplier = 0
       THEN Return(Fail(action, "Could not find supplier"))
       ELSE IF found = 0 /\ ~IsStr(params.product) THEN Return(Error500)
       ELSE LET unitPrice == parseUnitPrice(params.unit_price)
                similarProducts == IF found = 0 THEN findSimilarProducts(params.product)
                                   ELSE <<>>
            IN IF found = 0 /\ similarProducts # <<>>
               THEN Return([Fail(action, "Product not found. Did you mean one of these?")
                              EXCEPT !.suggestedProducts = similarProducts])
               ELSE IF found = 0 /\ ~IsNum(unitPrice)
               THEN Return(Fail(action, "Product does not exist"))
               ELSE
                 LET created == (found = 0)
                     inserted == IF created
                                 THEN Append(products,
                                        [p_name |-> params.product.s,
                                         unit_price |-> unitPrice.n, quantity |-> 0])
                                 ELSE products
                     pid == IF created THEN Len(inserted) ELSE found
                     product == inserted[pid]
                     finalUnitPrice == IF IsNum(unitPrice) THEN unitPrice.n
                                       ELSE product.unit_price
                     repriced == IF IsNum(unitPrice) /\ product.unit_price # unitPrice.n
                                 THEN [inserted EXCEPT ![pid].unit_price = unitPrice.n]
                                 ELSE inserted
                 IN /\ products' = repriced
                    /\ IF IsNum(params.quantity)
                       THEN /\ orders' = Append(orders,
                                 Order(params.quantity.n, pid, supplier, warehouse,
                                       finalUnitPrice * params.quantity.n))
                            /\ origQuantity' = Append(origQuantity, params.quantity.n)
                            /\ result' = [Ok(action, "Created purchase order")
                                            EXCEPT !.requiresBillUpload = TRUE,
                                                   !.orderId = Len(orders) + 1]
                       ELSE /\ UNCHANGED <<orders, origQuantity>>
                            /\ result' = Fail(action, "Failed to create order")
                    /\ UNCHANGED <<warehouses, suppliers, product_warehouse, transactions>>

\* the orders RECEIVE_ORDER selects, as a sequence of po_ids
matchingOrders(params, warehouse) ==
  IF Truthy(params.order_id)
  THEN SelectSeq(OrdersIn(OpenStatuses), LAMBDA o : o = params.order_id.n)
  ELSE
    LET open == OrdersIn(OpenStatuses)
        byProduct == IF Truthy(params.product)
                     THEN SelectSeq(open, LAMBDA o :
                            MatchesProduct(products[orders[o].p_id].p_name, params.product))
                     ELSE <<>>
        byWarehouse == IF Truthy(params.warehouse) /\ byProduct # <<>> /\ warehouse # 0
                       THEN SelectSeq(byProduct, LAMBDA o : orders[o].target_w_id = warehouse)
                       ELSE byProduct
        exactQuantityMatches ==
          IF Truthy(params.quantity)
          THEN SelectSeq(byWarehouse, LAMBDA o : params.quantity = Num(orders[o].quantity))
          ELSE <<>>
        byQuantity == IF exactQuantityMatches # <<>> THEN exactQuantityMatches
                      ELSE byWarehouse
    IN IF byQuantity = <<>> /\ Falsy(params.product) /\ Falsy(params.warehouse)
       THEN open
       ELSE byQuantity

\* a receipt that asks for the bill when it completes the order
BillOnCompletion(action, remainingQuantity, po_id) ==
  [Ok(action, IF remainingQuantity > 0 THEN "Partially received" ELSE "fully received")
     EXCEPT !.orderId = po_id, !.requiresBillUpload = ~(remainingQuantity > 0)]

\* the envelope of a receipt: requiresBillUpload: false, orderId: order.po_id
Received(action, remainingQuantity, po_id) ==
  [Ok(action, IF remainingQuantity > 0 THEN "Partially received" ELSE "fully received")
     EXCEPT !.orderId = po_id]

RECEIVE_ORDER(parsed) ==
  LET action == parsed.action
      params == parsed.params
  IN
  /\ cmd' = parsed
  /\ IF ~parsed.hasParams THEN Return(Error500)
     ELSE IF Falsy(params.order_id) /\ OrdersIn(OpenStatuses) # <<>>
             /\ Truthy(params.product) /\ ~IsStr(params.product)
     THEN Return(Error500)
     ELSE \E warehouse \in findWarehouse(params.warehouse) :
       LET matching == matchingOrders(params, warehouse)
       IN IF matching = <<>> THEN Return(Fail(action, "No pending orders found"))
          ELSE IF Multiple(matching)
          THEN Return([Fail(action, "Multiple orders found")
                         EXCEPT !.pendingOrders = Slice5(matching)])
          ELSE
            LET po_id == matching[1]
                order == orders[po_id]
                orderQuantity == order.quantity
                receivedQuantity == IF Truthy(params.quantity) THEN params.quantity.n
                                    ELSE orderQuantity
                remainingQuantity == orderQuantity - receivedQuantity
            IN IF OverReceipt(receivedQuantity, orderQuantity)
               THEN Return(Fail(action, "Cannot receive"))
               ELSE /\ orders' = [orders EXCEPT
                                    ![po_id].status = ReceiveStatus(remainingQuantity),
                                    ![po_id].quantity = remainingQuantity]
                    /\ product_warehouse' =
                         AddStock(product_warehouse, order.p_id, order.target_w_id,
                                  Num(receivedQuantity))
                    /\ products' = [products EXCEPT
                                      ![order.p_id].quantity = @ + receivedQuantity]
                    /\ transactions' =
                         insertTransaction(transactions,
                           Transaction(Num(receivedQuantity), "receive", order.p_id,
                                       order.target_w_id, 0, po_id))
                    /\ result' = Received(action, remainingQuantity, po_id)
                    /\ UNCHANGED <<warehouses, suppliers, origQuantity>>

\* the order UPDATE_ORDER_STATUS selects: a po_id, 0 for none, or the
\* sequence of candidates when the product matches several
selectOrder(params) ==
  IF Truthy(params.order_id)
  THEN SelectSeq(Ids(orders), LAMBDA o : o = params.order_id.n)
  ELSE IF Truthy(params.product)
  THEN SelectSeq(OrdersIn(ActiveStatuses), LAMBDA o :
         MatchesProduct(products[orders[o].p_id].p_name, params.product))
  ELSE <<>>

\* a status update that also closes the quantity of the order
closeOrder(table, po_id, status) ==
  IF status = Undefined THEN table
  ELSE [table EXCEPT ![po_id].status = status.status, ![po_id].quantity = 0]

\* .update({ status: params.status, updated_at }).eq('po_id', order.po_id);
\* an undefined status is left out of the request body
updateStatus(table, po_id, status) ==
  IF status = Undefined THEN table
  ELSE [table EXCEPT ![po_id].status = status.status]

UPDATE_ORDER_STATUS(parsed) ==
  LET action == parsed.action
      params == parsed.params
  IN
  /\ cmd' = parsed
  /\ IF ~parsed.hasParams THEN Return(Error500)
     ELSE IF Falsy(params.order_id) /\ Truthy(params.product) /\ ~IsStr(params.product)
             /\ OrdersIn(ActiveStatuses) # <<>>
     THEN Return(Error500)
     ELSE
       LET selected == selectOrder(params)
       IN IF Multiple(selected) THEN Return(Fail(action, "Multiple orders found for"))
          ELSE IF selected = <<>> THEN Return(Fail(action, "Could not find order"))
          ELSE
            LET po_id == selected[1]
                order == orders[po_id]
            IN IF params.status = Status("reordered")
               THEN /\ orders' = [Append(orders,
                                    Order(order.quantity, order.p_id, order.sup_id,
                                          order.target_w_id, order.price))
                                    EXCEPT ![po_id].status = "reordered"]
                    /\ origQuantity' = Append(origQuantity, order.quantity)
                    /\ result' = [Ok(action, "Reordered!")
                                    EXCEPT !.requiresBillUpload = TRUE,
                                           !.orderId = Len(orders) + 1]
                    /\ UNCHANGED <<products, warehouses, suppliers, product_warehouse,
                                   transactions>>
               ELSE /\ orders' = updateStatus(orders, po_id, params.status)
                    /\ result' = [Ok(action, "Updated order status")
                                    EXCEPT !.orderId = po_id]
                    /\ UNCHANGED <<products, warehouses, suppliers, product_warehouse,
                                   transactions, origQuantity>>

----------------------------------------------------------------------------
(* Inserts of reference entities, views and the default branch.            *)

\* a NOT NULL name column refuses the row when params.name is undefined
ADD_PRODUCT(parsed) ==
  LET action == parsed.action
      params == parsed.params
  IN
  /\ cmd' = parsed
  /\ IF ~parsed.hasParams THEN Return(Error500)
     ELSE IF ~IsStr(params.name) THEN Return(Fail(action, "Failed to add product"))
     ELSE /\ products' = Append(products,
                           [p_name |-> params.name.s,
                            unit_price |-> JsOr(params.price, Num(0)).n,
                            quantity |-> 0])
          /\ result' = [Ok(action, "Added product") EXCEPT !.data = <<Len(products) + 1>>]
          /\ UNCHANGED <<warehouses, suppliers, product_warehouse, orders, transactions,
                         origQuantity>>

ADD_SUPPLIER(parsed) ==
  LET action == parsed.action
      params == parsed.params
  IN
  /\ cmd' = parsed
  /\ IF ~parsed.hasParams THEN Return(Error500)
     ELSE IF ~IsStr(params.name) THEN Return(Fail(action, "Failed to add supplier"))
     ELSE /\ suppliers' = Append(suppliers, [s_name |-> params.name.s])
          /\ result' = [Ok(action, "Added supplier") EXCEPT !.data = <<Len(suppliers) + 1>>]
          /\ UNCHANGED <<products, warehouses, product_warehouse, orders, transactions,
                         origQuantity>>

ADD_WAREHOUSE(parsed) ==
  LET action == parsed.action
      params == parsed.params
  IN
  /\ cmd' = parsed
  /\ IF ~parsed.hasParams THEN Return(Error500)
     ELSE IF ~IsStr(params.name) THEN Return(Fail(action, "Failed to add warehouse"))
     ELSE /\ warehouses' = Append(warehouses, [w_name |-> params.name.s])
          /\ result' = [Ok(action, "Added warehouse")
                          EXCEPT !.data = <<Len(warehouses) + 1>>]
          /\ UNCHANGED <<products, suppliers, product_warehouse, orders, transactions,
                         origQuantity>>

\* a view returns the keys of the rows it selected
View(action, entity, data) ==
  [Envelope(action, TRUE, "(interpreter message)") EXCEPT !.entity = entity, !.data = data]

VIEW_PRODUCTS(parsed) ==
  /\ cmd' = parsed
  /\ Return(View(parsed.action, "products", Ids(products)))

\* every StockRecord of the warehouse
stockInWarehouse(warehouse) ==
  SeqOf({k \in DOMAIN product_warehouse : k[2] = warehouse})

\* .eq('w_id', warehouse.w_id).gt('stock', 0): the keys of the rows returned;
\* a NULL stock satisfies no comparison
productsInWarehouse(warehouse) ==
  SeqOf({k \in DOMAIN product_warehouse :
           /\ k[2] = warehouse
           /\ IsNum(product_warehouse[k])
           /\ product_warehouse[k].n > 0})

VIEW_PRODUCTS_IN_WAREHOUSE(parsed) ==
  /\ cmd' = parsed
  /\ IF ~parsed.hasParams THEN Return(Error500)
     ELSE \E warehouse \in findWarehouse(parsed.params.warehouse) :
       IF warehouse = 0 THEN Return(Fail(parsed.action, "Could not find warehouse"))
       ELSE Return([View(parsed.action, "products_in_warehouse",
                      productsInWarehouse(warehouse))
                      EXCEPT !.message = "Products in"])

VIEW_WAREHOUSES(parsed) ==
  /\ cmd' = parsed
  /\ Return(View(parsed.action, "warehouses", Ids(warehouses)))

VIEW_SUPPLIERS(parsed) ==
  /\ cmd' = parsed
  /\ Return(View(parsed.action, "suppliers", Ids(suppliers)))

VIEW_ORDERS(parsed) ==
  /\ cmd' = parsed
  /\ Return(View(parsed.action, "orders",
       IF parsed.hasParams /\ parsed.params.status # Undefined
       THEN SelectSeq(Ids(orders), LAMBDA o : orders[o].status = parsed.params.status.status)
       ELSE Ids(orders)))

VIEW_TRANSACTIONS(parsed) ==
  /\ cmd' = parsed
  /\ Return(View(parsed.action, "transactions", Ids(transactions)))

VIEW_STOCK(parsed) ==
  /\ cmd' = parsed
  /\ \E warehouse \in (IF parsed.hasParams /\ Truthy(parsed.params.warehouse)
                       THEN findWarehouse(parsed.params.warehouse) ELSE {0}),
        product \in (IF parsed.hasParams /\ Truthy(parsed.params.product)
                     THEN findProduct(parsed.params.product) ELSE {0}) :
       Return(View(parsed.action, "stock",
         SeqOf({k \in DOMAIN product_warehouse :
                  /\ (warehouse # 0 => k[2] = warehouse)
                  /\ (product # 0 => k[1] = product)})))

\* a default branch that throws
Thrown(parsed) ==
  /\ cmd' = parsed
  /\ Return(Error500)

\* default: any other action string
UNRECOGNIZED(parsed) ==
  /\ cmd' = parsed
  /\ Return(Fail(parsed.action, IF Truthy(parsed.message) THEN "(interpreter message)"
                                ELSE "Command not recognized"))

\* switch (action): the handler of the action string, the default for any other
executeAction(parsed) ==
  CASE parsed.action = "VIEW_PRODUCTS" -> VIEW_PRODUCTS(parsed)
    [] parsed.action = "VIEW_PRODUCTS_IN_WAREHOUSE" -> VIEW_PRODUCTS_IN_WAREHOUSE(parsed)
    [] parsed.action = "VIEW_WAREHOUSES" -> VIEW_WAREHOUSES(parsed)
    [] parsed.action = "VIEW_SUPPLIERS" -> VIEW_SUPPLIERS(parsed)
    [] parsed.action = "VIEW_ORDERS" -> VIEW_ORDERS(parsed)
    [] parsed.action = "VIEW_TRANSACTIONS" -> VIEW_TRANSACTIONS(parsed)
    [] parsed.action = "VIEW_STOCK" -> VIEW_STOCK(parsed)
    [] parsed.action = "TAKE_STOCK" -> TAKE_STOCK(parsed)
    [] parsed.action = "RETURN_STOCK" -> RETURN_STOCK(parsed)
    [] parsed.action = "CREATE_ORDER" -> CREATE_ORDER(parsed)
    [] parsed.action = "RECEIVE_ORDER" -> RECEIVE_ORDER(parsed)
    [] parsed.action = "UPDATE_ORDER_STATUS" -> UPDATE_ORDER_STATUS(parsed)
    [] parsed.action = "ADD_PRODUCT" -> ADD_PRODUCT(parsed)
    [] parsed.action = "ADD_SUPPLIER" -> ADD_SUPPLIER(parsed)
    [] parsed.action = "ADD_WAREHOUSE" -> ADD_WAREHOUSE(parsed)
    [] parsed.action = "MOVE_PRODUCT" -> MOVE_PRODUCT(parsed)
    [] parsed.action = "TRANSFER_STOCK" -> TRANSFER_STOCK(parsed)
    [] OTHER -> UNRECOGNIZED(parsed)

\* processCommand of the console: the bill upload dialog opens on a success
\* that carries requiresBillUpload and an order id
billUploadOpen(response) ==
  response.success /\ response.requiresBillUpload /\ response.orderId # 0

----------------------------------------------------------------------------
(* Commands in progress.  The edge function serves each request in its own *)
(* invocation and no handler opens a database transaction, so the store    *)
(* calls of concurrent commands interleave.  A step of a command is one    *)
(* store call on a table another command may write, with the computation   *)
(* that follows it up to the next call.                                    *)

Calls == 1 .. MaxCalls

Idle ==
  [pc |-> "idle", action |-> NoAction, product |-> 0, warehouse |-> 0, to |-> 0,
   quantity |-> Undefined, order |-> 0, row |-> Null, remaining |-> 0,
   received |-> 0, total |-> 0, success |-> FALSE, wrote |-> <<>>]

\* the call returns its envelope
Returns(c, success) ==
  calls' = [calls EXCEPT ![c].pc = "done", ![c].success = success]

\* the call has issued a write to the table and goes on to its next store
\* call; wrote is the history of the writes the call has issued
Writes(c, table, pc) ==
  calls' = [calls EXCEPT ![c].wrote = Append(@, table), ![c].pc = pc]

\* the call has issued its insert into transactions and returns success
Logs(c) ==
  calls' = [calls EXCEPT ![c].wrote = Append(@, "transactions"), ![c].pc = "done",
                         ![c].success = TRUE]

\* a read that goes straight to the insert into the log
Skips(c, row, pc) == calls' = [calls EXCEPT ![c].row = row, ![c].pc = "insert"]

\* the call keeps the row it read and goes on
Reads(c, row, pc) == calls' = [calls EXCEPT ![c].row = row, ![c].pc = pc]

\* what a step leaves alone when it writes one table, or none
OnlyCall ==
  UNCHANGED <<products, warehouses, suppliers, product_warehouse, orders, transactions,
              cmd, result, origQuantity>>
OnlyStock ==
  UNCHANGED <<products, warehouses, suppliers, orders, transactions, cmd, result,
              origQuantity>>
OnlyLog ==
  UNCHANGED <<products, warehouses, suppliers, product_warehouse, orders, cmd, result,
              origQuantity>>
OnlyOrders ==
  UNCHANGED <<products, warehouses, suppliers, product_warehouse, transactions, cmd,
              result, origQuantity>>
OnlyProducts ==
  UNCHANGED <<warehouses, suppliers, product_warehouse, orders, transactions, cmd,
              result, origQuantity>>

\* a decrement of the stored value
decrementTaken(pw, call) ==
  updateStock(pw, call.product, call.warehouse,
              JsSub(pw[<<call.product, call.warehouse>>], call.quantity))

\* .update({ stock: currentStock.stock - params.quantity }) of TAKE_STOCK:
\* the value written is computed from the row the call read
updateTaken(pw, call) ==
  updateStock(pw, call.product, call.warehouse, JsSub(call.row.stock, call.quantity))

\* a decrement of the stored value of the source
decrementSource(pw, call) ==
  updateStock(pw, call.product, call.warehouse,
              JsSub(pw[<<call.product, call.warehouse>>], call.quantity))

\* .update({ stock: sourceStock.stock - quantity }) of a transfer
updateSource(pw, call) ==
  updateStock(pw, call.product, call.warehouse, JsSub(call.row.stock, call.quantity))

\* a request arrives: executeAction resolves the entities the handler names.
\* The resolvers read products, warehouses and suppliers, which no command in
\* progress writes, so the resolution is one step.
Begin(c, Parsed) ==
  /\ calls[c].pc = "idle"
  /\ \E parsed \in Parsed :
       LET action == parsed.action
           params == parsed.params
       IN
       \E product \in (IF action = "RECEIVE_ORDER" THEN {0}
                       ELSE findProduct(params.product)),
          warehouse \in (CASE action \in {"TAKE_STOCK", "RETURN_STOCK"} ->
                                findWarehouse(params.warehouse)
                           [] action = "TRANSFER_STOCK" ->
                                findWarehouse(params.from_warehouse)
                           [] action = "MOVE_PRODUCT" /\ Truthy(params.from_warehouse) ->
                                findWarehouse(params.from_warehouse)
                           [] OTHER -> {0}),
          to \in (IF action \in {"TRANSFER_STOCK", "MOVE_PRODUCT"}
                  THEN findWarehouse(params.to_warehouse) ELSE {0}) :
         LET call == [Idle EXCEPT !.action = action, !.product = product,
                                  !.warehouse = warehouse, !.to = to,
                                  !.quantity = params.quantity]
             unresolved ==
               CASE action \in {"TAKE_STOCK", "RETURN_STOCK"} -> product = 0 \/ warehouse = 0
                 [] action = "TRANSFER_STOCK" -> product = 0 \/ warehouse = 0 \/ to = 0
                 [] action = "MOVE_PRODUCT" ->
                      \/ product = 0 \/ to = 0
                      \/ Truthy(params.from_warehouse) /\ warehouse = 0
                 [] OTHER -> FALSE
         IN calls' = [calls EXCEPT ![c] =
              CASE unresolved -> [call EXCEPT !.pc = "done"]
                [] action = "MOVE_PRODUCT" ->
                     [call EXCEPT !.pc = "locate",
                                  !.quantity = JsOr(params.quantity, Num(1))]
                [] action = "RECEIVE_ORDER" ->
                     [call EXCEPT !.pc = "order", !.order = params.order_id.n]
                [] OTHER -> [call EXCEPT !.pc = "select"]]
  /\ OnlyCall

\* TAKE_STOCK, store call by store call: the read of the StockRecord with
\* the check on it, the update, the insert into the log
TakeCall(c) ==
  LET call == calls[c]
  IN
  /\ call.action = "TAKE_STOCK"
  /\ CASE call.pc = "select" ->
            LET currentStock == selectStock(product_warehouse, call.product, call.warehouse)
            IN /\ IF InsufficientStock(currentStock, call.quantity)
                  THEN Returns(c, FALSE)
                  ELSE Reads(c, currentStock, "update")
               /\ OnlyCall
       [] call.pc = "update" ->
            /\ product_warehouse' = updateTaken(product_warehouse, call)
            /\ Writes(c, "product_warehouse", "insert")
            /\ OnlyStock
       [] call.pc = "insert" ->
            /\ transactions' =
                 insertTransaction(transactions,
                   Transaction(call.quantity, "take", call.product, call.warehouse, 0, 0))
            /\ Logs(c)
            /\ OnlyLog
       [] OTHER -> FALSE

\* RETURN_STOCK: the read of the StockRecord, the update or insert decided
\* on that read, the insert into the log
ReturnCall(c) ==
  LET call == calls[c]
  IN
  /\ call.action = "RETURN_STOCK"
  /\ CASE call.pc = "select" ->
            /\ Reads(c, selectStock(product_warehouse, call.product, call.warehouse),
                     "update")
            /\ OnlyCall
       [] call.pc = "update" ->
            /\ product_warehouse' =
                 IF call.row # Null
                 THEN updateStock(product_warehouse, call.product, call.warehouse,
                                  JsAdd(call.row.stock, call.quantity))
                 ELSE insertStock(product_warehouse, call.product, call.warehouse,
                                  call.quantity)
            /\ Writes(c, "product_warehouse", "insert")
            /\ OnlyStock
       [] call.pc = "insert" ->
            /\ transactions' =
                 insertTransaction(transactions,
                   Transaction(call.quantity, "return", call.product, call.warehouse, 0, 0))
            /\ Logs(c)
            /\ OnlyLog
       [] OTHER -> FALSE

\* TRANSFER_STOCK: the read of the source with the check on it, the update
\* of the source, the read of the destination, the update or insert decided
\* on that read, the insert into the log
TransferCall(c) ==
  LET call == calls[c]
  IN
  /\ call.action = "TRANSFER_STOCK"
  /\ CASE call.pc = "select" ->
            LET sourceStock == selectStock(product_warehouse, call.product, call.warehouse)
            IN /\ IF InsufficientStock(sourceStock, call.quantity)
                  THEN Returns(c, FALSE)
                  ELSE Reads(c, sourceStock, "update")
               /\ OnlyCall
       [] call.pc = "update" ->
            /\ product_warehouse' = updateSource(product_warehouse, call)
            /\ Writes(c, "product_warehouse", "select_to")
            /\ OnlyStock
       [] call.pc = "select_to" ->
            /\ Reads(c, selectStock(product_warehouse, call.product, call.to), "update_to")
            /\ OnlyCall
       [] call.pc = "update_to" ->
            /\ product_warehouse' =
                 IF call.row # Null
                 THEN updateStock(product_warehouse, call.product, call.to,
                                  JsAdd(call.row.stock, call.quantity))
                 ELSE insertStock(product_warehouse, call.product, call.to, call.quantity)
            /\ Writes(c, "product_warehouse", "insert")
            /\ OnlyStock
       [] call.pc = "insert" ->
            /\ transactions' =
                 insertTransaction(transactions,
                   Transaction(call.quantity, "transfer", call.product, call.warehouse,
                               call.to, 0))
            /\ Logs(c)
            /\ OnlyLog
       [] OTHER -> FALSE

\* MOVE_PRODUCT: the search for a source when none is named, then the store
\* calls of a transfer
MoveCall(c) ==
  LET call == calls[c]
  IN
  /\ call.action = "MOVE_PRODUCT"
  /\ CASE call.pc = "locate" ->
            /\ \E fromWarehouse \in
                    (IF call.warehouse # 0 THEN {call.warehouse}
                     ELSE sourceLocation(call.product, call.to, call.quantity)) :
                 IF fromWarehouse = 0 \/ fromWarehouse = call.to
                 THEN Returns(c, FALSE)
                 ELSE calls' = [calls EXCEPT ![c].warehouse = fromWarehouse,
                                             ![c].pc = "select"]
            /\ OnlyCall
       [] call.pc = "select" ->
            LET sourceStock == selectStock(product_warehouse, call.product, call.warehouse)
            IN /\ IF InsufficientStock(sourceStock, call.quantity)
                  THEN Returns(c, FALSE)
                  ELSE Reads(c, sourceStock, "update")
               /\ OnlyCall
       [] call.pc = "update" ->
            /\ product_warehouse' = updateSource(product_warehouse, call)
            /\ Writes(c, "product_warehouse", "select_to")
            /\ OnlyStock
       [] call.pc = "select_to" ->
            /\ Reads(c, selectStock(product_warehouse, call.product, call.to), "update_to")
            /\ OnlyCall
       [] call.pc = "update_to" ->
            /\ product_warehouse' =
                 IF call.row # Null
                 THEN updateStock(product_warehouse, call.product, call.to,
                                  JsAdd(call.row.stock, call.quantity))
                 ELSE insertStock(product_warehouse, call.product, call.to, call.quantity)
            /\ Writes(c, "product_warehouse", "insert")
            /\ OnlyStock
       [] call.pc = "insert" ->
            /\ transactions' =
                 insertTransaction(transactions,
                   Transaction(call.quantity, "transfer", call.product, call.warehouse,
                               call.to, 0))
            /\ Logs(c)
            /\ OnlyLog
       [] OTHER -> FALSE

\* RECEIVE_ORDER by order_id: the read of the open order with the check of
\* the amount, the update of the order, the read of the target StockRecord,
\* its update or insert, the read of the product total, its update, the
\* insert into the log
ReceiveCall(c) ==
  LET call == calls[c]
  IN
  /\ call.action = "RECEIVE_ORDER"
  /\ CASE call.pc = "order" ->
            /\ IF call.order \notin DOMAIN orders
                    \/ orders[call.order].status \notin OpenStatuses
                 THEN Returns(c, FALSE)
                 ELSE LET order == orders[call.order]
                          orderQuantity == order.quantity
                          receivedQuantity == IF Truthy(call.quantity) THEN call.quantity.n
                                              ELSE orderQuantity
                      IN IF OverReceipt(receivedQuantity, orderQuantity)
                         THEN Returns(c, FALSE)
                         ELSE calls' = [calls EXCEPT
                                ![c].product = order.p_id,
                                ![c].to = order.target_w_id,
                                ![c].remaining = orderQuantity - receivedQuantity,
                                ![c].received = receivedQuantity,
                                ![c].pc = "update_order"]
            /\ OnlyCall
       [] call.pc = "update_order" ->
            /\ orders' = [orders EXCEPT
                            ![call.order].status = ReceiveStatus(call.remaining),
                            ![call.order].quantity = call.remaining]
            /\ Writes(c, "orders", "select_to")
            /\ OnlyOrders
       [] call.pc = "select_to" ->
            /\ Reads(c, selectStock(product_warehouse, call.product, call.to), "update_to")
            /\ OnlyCall
       [] call.pc = "update_to" ->
            /\ product_warehouse' =
                 IF call.row # Null
                 THEN updateStock(product_warehouse, call.product, call.to,
                                  JsAdd(call.row.stock, Num(call.received)))
                 ELSE insertStock(product_warehouse, call.product, call.to,
                                  Num(call.received))
            /\ Writes(c, "product_warehouse", "select_total")
            /\ OnlyStock
       [] call.pc = "select_total" ->
            /\ calls' = [calls EXCEPT ![c].total = products[call.product].quantity,
                                      ![c].pc = "update_total"]
            /\ OnlyCall
       [] call.pc = "update_total" ->
            /\ products' = [products EXCEPT
                              ![call.product].quantity = call.total + call.received]
            /\ Writes(c, "products", "insert")
            /\ OnlyProducts
       [] call.pc = "insert" ->
            /\ transactions' =
                 insertTransaction(transactions,
                   Transaction(Num(call.received), "receive", call.product, call.to, 0,
                               call.order))
            /\ Logs(c)
            /\ OnlyLog
       [] OTHER -> FALSE

----------------------------------------------------------------------------
(* Initial store: the catalogue (two products, two warehouses, one         *)
(* supplier) after CREATE_ORDER of 2 "Ab" to "Mw" and RECEIVE_ORDER of 1   *)
(* of them.                                                                *)

Ab == <<"A", "b">>
Cd == <<"c", "d">>
Mw == <<"M", "w">>
Ew == <<"E", "w">>
Su == <<"S", "u">>

Init ==
  /\ products = <<[p_name |-> Ab, unit_price |-> 2, quantity |-> 1],
                  [p_name |-> Cd, unit_price |-> 1, quantity |-> 0]>>
  /\ warehouses = <<[w_name |-> Mw], [w_name |-> Ew]>>
  /\ suppliers = <<[s_name |-> Su]>>
  /\ product_warehouse = [k \in {<<1, 1>>} |-> Num(1)]
  /\ orders = <<[Order(1, 1, 0, 1, 4) EXCEPT !.status = "partial"]>>
  /\ transactions = <<Transaction(1, "receive", 1, 1, 0, 1)>>
  /\ origQuantity = <<2>>
  /\ cmd = Proposal("RECEIVE_ORDER",
             [NoParams EXCEPT !.order_id = Num(1), !.quantity = Num(1)])
  /\ result = [Envelope("RECEIVE_ORDER", TRUE, "Partially received")
                 EXCEPT !.orderId = 1]
  /\ calls = [c \in Calls |-> Idle]

\* the store before any command of the log: Stocked units of Ab in Mw, one
\* pending order of Ab to Mw, no command in progress
Stocked == MaxQty - 1

InitRace ==
  /\ products = <<[p_name |-> Ab, unit_price |-> 2, quantity |-> Stocked],
                  [p_name |-> Cd, unit_price |-> 1, quantity |-> 0]>>
  /\ warehouses = <<[w_name |-> Mw], [w_name |-> Ew]>>
  /\ suppliers = <<[s_name |-> Su]>>
  /\ product_warehouse = [k \in {<<1, 1>>} |-> Num(Stocked)]
  /\ orders = <<Order(1, 1, 0, 1, 2)>>
  /\ transactions = <<>>
  /\ origQuantity = <<1>>
  /\ cmd = Bare(NoAction, Undefined)
  /\ result = Fail(NoAction, "Command not recognized")
  /\ calls = [c \in Calls |-> Idle]

\* a store without StockRecords and without TransactionRecords: the
\* catalogue and one pending order of MaxQty units of Ab to Mw
InitLedger ==
  /\ products = <<[p_name |-> Ab, unit_price |-> 2, quantity |-> 0],
                  [p_name |-> Cd, unit_price |-> 1, quantity |-> 0]>>
  /\ warehouses = <<[w_name |-> Mw], [w_name |-> Ew]>>
  /\ suppliers = <<[s_name |-> Su]>>
  /\ product_warehouse = [k \in {} |-> Num(0)]
  /\ orders = <<Order(MaxQty, 1, 0, 1, 2 * MaxQty)>>
  /\ transactions = <<>>
  /\ origQuantity = <<MaxQty>>
  /\ cmd = Bare(NoAction, Undefined)
  /\ result = Fail(NoAction, "Command not recognized")
  /\ calls = [c \in Calls |-> Idle]

\* what the bounds leave of the state space
Bounded ==
  /\ Len(transactions) <= MaxTx
  /\ Len(orders) <= MaxOrders
  /\ Len(products) + Len(warehouses) + Len(suppliers) <= MaxRows

----------------------------------------------------------------------------
(* The proposals the interpreter may send.                                 *)

Quantities == {Num(n) : n \in -1 .. MaxQty}

ab == Str(<<"a", "b">>)
abc == Str(<<"a", "b", "c">>)
xy == Str(<<"x", "y">>)
mw == Str(<<"m", "w">>)
e == Str(<<"e">>)

\* params and each way of leaving one of its fields out
Omit(params) == {params} \cup {[params EXCEPT ![f] = Undefined] : f \in DOMAIN params}

StockParams(Products, Warehouses) ==
  {[NoParams EXCEPT !.product = p, !.warehouse = w, !.quantity = q] :
     p \in Products, w \in Warehouses, q \in Quantities}

TransferParams(Products, Froms, Tos) ==
  {[NoParams EXCEPT !.product = p, !.from_warehouse = f, !.to_warehouse = w,
                    !.quantity = q] :
     p \in Products, f \in Froms, w \in Tos, q \in Quantities}

OrderParams(Products, Warehouses, Suppliers, Prices, Qs) ==
  {[NoParams EXCEPT !.product = p, !.warehouse = w, !.supplier = s, !.quantity = q,
                    !.unit_price = u] :
     p \in Products, w \in Warehouses, s \in Suppliers, u \in Prices, q \in Qs}

ReceiveParams(Products, Warehouses, OIds, Qs) ==
  {[NoParams EXCEPT !.product = p, !.warehouse = w, !.order_id = o, !.quantity = q] :
     p \in Products, w \in Warehouses, o \in OIds, q \in Qs}

StatusParams(Products, OIds, Statuses) ==
  {[NoParams EXCEPT !.product = p, !.order_id = o, !.status = st] :
     p \in Products, o \in OIds, st \in Statuses}

OrderIds == {Num(n) : n \in 1 .. MaxOrders}

dollar3 == Str(<<"$", "3">>)

Proposals(action, Params) ==
  {Proposal(action, params) : params \in Params} \cup {Bare(action, Undefined)}

----------------------------------------------------------------------------
(* One action per handler, over the proposals a specification feeds it.    *)

TakeStock(Parsed) == \E parsed \in Parsed : TAKE_STOCK(parsed) /\ Bounded' /\ UNCHANGED calls
ReturnStock(Parsed) == \E parsed \in Parsed : RETURN_STOCK(parsed) /\ Bounded' /\ UNCHANGED calls
TransferStock(Parsed) == \E parsed \in Parsed : TRANSFER_STOCK(parsed) /\ Bounded' /\ UNCHANGED calls
MoveProduct(Parsed) == \E parsed \in Parsed : MOVE_PRODUCT(parsed) /\ Bounded' /\ UNCHANGED calls
CreateOrder(Parsed) == \E parsed \in Parsed : CREATE_ORDER(parsed) /\ Bounded' /\ UNCHANGED calls
ReceiveOrder(Parsed) == \E parsed \in Parsed : RECEIVE_ORDER(parsed) /\ Bounded' /\ UNCHANGED calls
UpdateOrderStatus(Parsed) == \E parsed \in Parsed : UPDATE_ORDER_STATUS(parsed) /\ Bounded' /\ UNCHANGED calls
AddProduct(Parsed) == \E parsed \in Parsed : ADD_PRODUCT(parsed) /\ Bounded' /\ UNCHANGED calls
AddSupplier(Parsed) == \E parsed \in Parsed : ADD_SUPPLIER(parsed) /\ Bounded' /\ UNCHANGED calls
AddWarehouse(Parsed) == \E parsed \in Parsed : ADD_WAREHOUSE(parsed) /\ Bounded' /\ UNCHANGED calls
ViewProducts(Parsed) == \E parsed \in Parsed : VIEW_PRODUCTS(parsed) /\ UNCHANGED calls
ViewProductsInWarehouse(Parsed) == \E parsed \in Parsed : VIEW_PRODUCTS_IN_WAREHOUSE(parsed) /\ UNCHANGED calls
ViewWarehouses(Parsed) == \E parsed \in Parsed : VIEW_WAREHOUSES(parsed) /\ UNCHANGED calls
ViewSuppliers(Parsed) == \E parsed \in Parsed : VIEW_SUPPLIERS(parsed) /\ UNCHANGED calls
ViewOrders(Parsed) == \E parsed \in Parsed : VIEW_ORDERS(parsed) /\ UNCHANGED calls
ViewTransactions(Parsed) == \E parsed \in Parsed : VIEW_TRANSACTIONS(parsed) /\ UNCHANGED calls
ViewStock(Parsed) == \E parsed \in Parsed : VIEW_STOCK(parsed) /\ UNCHANGED calls
Unrecognized(Parsed) == \E parsed \in Parsed : executeAction(parsed) /\ Bounded' /\ UNCHANGED calls

----------------------------------------------------------------------------
(* SpecStock: the stock movements and the receipt of an order, one         *)
(* command at a time.                                                      *)

NextStock ==
  \/ TakeStock(Proposals("TAKE_STOCK", StockParams({ab}, {mw, e})))
  \/ ReturnStock(Proposals("RETURN_STOCK", StockParams({ab}, {mw, e})))
  \/ TransferStock(Proposals("TRANSFER_STOCK",
       TransferParams({ab}, {mw}, {mw, e}) \cup TransferParams({ab}, {e}, {mw})))
  \/ MoveProduct(Proposals("MOVE_PRODUCT",
       TransferParams({ab}, {Undefined}, {mw, e}) \cup TransferParams({ab}, {mw}, {e})
         \cup {[NoParams EXCEPT !.product = ab, !.to_warehouse = e]}))
  \/ ReceiveOrder(Proposals("RECEIVE_ORDER",
       ReceiveParams({Undefined}, {Undefined}, {Num(1)}, Quantities)))

SpecStock == Init /\ [][NextStock]_vars

----------------------------------------------------------------------------
(* SpecOrders: the order lifecycle, one command at a time.                 *)

NextOrders ==
  \/ CreateOrder(Proposals("CREATE_ORDER",
       OrderParams({ab}, {mw}, {Undefined}, {Undefined}, {Num(1), Num(MaxQty)})
         \cup OrderParams({abc, xy}, {mw}, {Undefined}, {Undefined}, {Num(1)})
         \cup OrderParams({xy}, {mw}, {Undefined}, {dollar3}, {Num(1)})
         \cup OrderParams({ab}, {Undefined}, {Undefined}, {Undefined}, {Num(1)})))
  \/ ReceiveOrder(Proposals("RECEIVE_ORDER",
       ReceiveParams({Undefined}, {Undefined}, OrderIds, Quantities)
         \cup ReceiveParams({Undefined, ab}, {Undefined}, {Undefined},
                            {Undefined, Num(1)})))
  \/ UpdateOrderStatus(Proposals("UPDATE_ORDER_STATUS",
       StatusParams({Undefined}, OrderIds,
                    {Undefined, Status("cancelled"), Status("reordered"),
                     Status("received"), Status("pending")})
         \cup StatusParams({ab}, {Undefined}, {Status("reordered")})))

SpecOrders == Init /\ [][NextOrders]_vars

----------------------------------------------------------------------------
(* SpecCatalog: the catalogue and the orders placed on it.  ADD_PRODUCT,   *)
(* ADD_SUPPLIER and ADD_WAREHOUSE add names that equal or contain a name   *)
(* of the initial store; CREATE_ORDER names products exactly, by a part of *)
(* a name, with an ILIKE wildcard, or not at all, with and without a unit  *)
(* price.                                                                  *)

su == Str(<<"s", "u">>)
sux == Str(<<"s", "u", "x">>)
justA == Str(<<"a">>)
aAny == Str(<<"a", "_">>)

UnitPrices == {Undefined, dollar3, Num(0)}

Named(Names) == {[NoParams EXCEPT !.name = n, !.price = Num(1)] : n \in Names}

NextCatalog ==
  \/ AddProduct(Proposals("ADD_PRODUCT", Named({ab, abc})))
  \/ AddSupplier(Proposals("ADD_SUPPLIER", Named({su, sux})))
  \/ AddWarehouse(Proposals("ADD_WAREHOUSE", Named({e})))
  \/ CreateOrder(Proposals("CREATE_ORDER",
       OrderParams({ab, abc, xy, justA, aAny}, {mw}, {Undefined, su}, UnitPrices,
                   {Num(1), Num(MaxQty)})
         \cup OrderParams({xy}, {mw, xy}, {Undefined, xy}, {dollar3}, {Undefined, Num(1)})
         \cup OrderParams({ab, xy}, {Undefined}, {Undefined}, {Undefined, dollar3},
                          {Num(1)})))

SpecCatalog == Init /\ [][NextCatalog]_vars

----------------------------------------------------------------------------
(* SpecFilters: receipts selected by product, warehouse and quantity, over *)
(* orders to both warehouses, some of them cancelled.                      *)

NextFilters ==
  \/ CreateOrder(Proposals("CREATE_ORDER",
       OrderParams({ab}, {mw, e}, {Undefined}, {Undefined}, {Num(1), Num(MaxQty)})))
  \/ ReceiveOrder(Proposals("RECEIVE_ORDER",
       ReceiveParams({Undefined, ab, xy}, {Undefined, mw, e, xy}, {Undefined},
                     {Undefined, Num(1), Num(MaxQty)})))
  \/ UpdateOrderStatus(Proposals("UPDATE_ORDER_STATUS",
       StatusParams({Undefined}, OrderIds, {Status("cancelled")})))

SpecFilters == Init /\ [][NextFilters]_vars

----------------------------------------------------------------------------
(* SpecLedger: the stock movements with quantities of at least 1, one at a *)
(* time, from a store without StockRecords and without TransactionRecords. *)

cd == Str(<<"c", "d">>)

Positive == {Num(n) : n \in 1 .. MaxQty}

NextLedger ==
  \/ TakeStock(Proposals("TAKE_STOCK",
       {params \in StockParams({ab, cd}, {mw, e}) : params.quantity \in Positive}))
  \/ ReturnStock(Proposals("RETURN_STOCK",
       {params \in StockParams({ab, cd}, {mw, e}) : params.quantity \in Positive}))
  \/ TransferStock(Proposals("TRANSFER_STOCK",
       {params \in TransferParams({ab}, {mw, e}, {mw, e}) : params.quantity \in Positive}))
  \/ MoveProduct(Proposals("MOVE_PRODUCT",
       {params \in TransferParams({ab}, {Undefined, mw}, {mw, e}) :
          params.quantity \in Positive}
         \cup {[NoParams EXCEPT !.product = ab, !.to_warehouse = e]}))
  \/ ReceiveOrder(Proposals("RECEIVE_ORDER",
       ReceiveParams({Undefined}, {Undefined}, {Num(1)}, Positive \cup {Undefined})))

SpecLedger == InitLedger /\ [][NextLedger]_vars

----------------------------------------------------------------------------
(* SpecRace: MaxCalls commands on the same product at once, each with a    *)
(* quantity of at least 1, interleaved store call by store call.           *)

RaceProposals ==
  {Proposal("TAKE_STOCK",
     [NoParams EXCEPT !.product = ab, !.warehouse = mw, !.quantity = Num(q)]) :
     q \in 1 .. MaxQty}
    \cup {Proposal("RETURN_STOCK",
            [NoParams EXCEPT !.product = ab, !.warehouse = w, !.quantity = Num(1)]) :
            w \in {mw, e}}
    \cup {Proposal("TRANSFER_STOCK",
            [NoParams EXCEPT !.product = ab, !.from_warehouse = mw, !.to_warehouse = e,
                             !.quantity = Num(1)]),
          Proposal("MOVE_PRODUCT", [NoParams EXCEPT !.product = ab, !.to_warehouse = e]),
          Proposal("RECEIVE_ORDER", [NoParams EXCEPT !.order_id = Num(1)]),
          Proposal("RECEIVE_ORDER",
            [NoParams EXCEPT !.order_id = Num(1), !.quantity = Num(1)])}

NextRace ==
  \E c \in Calls :
    \/ Begin(c, RaceProposals)
    \/ TakeCall(c)
    \/ ReturnCall(c)
    \/ TransferCall(c)
    \/ MoveCall(c)
    \/ ReceiveCall(c)

SpecRace == InitRace /\ [][NextRace]_vars

----------------------------------------------------------------------------
(* Spec: every handler of executeAction, each fed one complete proposal,   *)
(* the same proposal with one parameter left out, and a proposal without   *)
(* a params object.                                                        *)

Next ==
  \/ TakeStock(Proposals("TAKE_STOCK",
       Omit([NoParams EXCEPT !.product = ab, !.warehouse = mw, !.quantity = Num(1)])))
  \/ ReturnStock(Proposals("RETURN_STOCK",
       Omit([NoParams EXCEPT !.product = ab, !.warehouse = mw, !.quantity = Num(1)])))
  \/ TransferStock(Proposals("TRANSFER_STOCK",
       Omit([NoParams EXCEPT !.product = ab, !.from_warehouse = mw, !.to_warehouse = e,
                             !.quantity = Num(1)])))
  \/ MoveProduct(Proposals("MOVE_PRODUCT",
       Omit([NoParams EXCEPT !.product = ab, !.from_warehouse = mw, !.to_warehouse = e,
                             !.quantity = Num(1)])))
  \/ CreateOrder(Proposals("CREATE_ORDER",
       Omit([NoParams EXCEPT !.product = ab, !.warehouse = mw, !.quantity = Num(1)])))
  \/ ReceiveOrder(Proposals("RECEIVE_ORDER",
       Omit([NoParams EXCEPT !.order_id = Num(1), !.quantity = Num(1)])))
  \/ UpdateOrderStatus(Proposals("UPDATE_ORDER_STATUS",
       Omit([NoParams EXCEPT !.order_id = Num(1), !.status = Status("cancelled")])))
  \/ AddProduct(Proposals("ADD_PRODUCT",
       Omit([NoParams EXCEPT !.name = xy, !.price = Num(1)])))
  \/ AddSupplier(Proposals("ADD_SUPPLIER", Omit([NoParams EXCEPT !.name = xy])))
  \/ AddWarehouse(Proposals("ADD_WAREHOUSE", Omit([NoParams EXCEPT !.name = xy])))
  \/ ViewProducts(Proposals("VIEW_PRODUCTS", {NoParams}))
  \/ ViewProductsInWarehouse(Proposals("VIEW_PRODUCTS_IN_WAREHOUSE",
       Omit([NoParams EXCEPT !.warehouse = mw])
         \cup {[NoParams EXCEPT !.warehouse = xy]}))
  \/ ViewWarehouses(Proposals("VIEW_WAREHOUSES", {NoParams}))
  \/ ViewSuppliers(Proposals("VIEW_SUPPLIERS", {NoParams}))
  \/ ViewOrders(Proposals("VIEW_ORDERS", Omit([NoParams EXCEPT !.status = Status("pending")])))
  \/ ViewTransactions(Proposals("VIEW_TRANSACTIONS", {NoParams}))
  \/ ViewStock(Proposals("VIEW_STOCK",
       Omit([NoParams EXCEPT !.product = ab, !.warehouse = mw])
         \cup {[NoParams EXCEPT !.product = xy, !.warehouse = xy]}))
  \/ Unrecognized({Bare("UNCLEAR", Str(<<"?">>)), Bare("DELETE_PRODUCT", Undefined),
                   Bare(NoAction, Undefined), Bare(NoAction, Str(<<"?">>)),
                   Proposal("take_stock",
                     [NoParams EXCEPT !.product = ab, !.warehouse = mw,
                                      !.quantity = Num(1)])})

Spec == Init /\ [][Next]_vars

----------------------------------------------------------------------------
(* Properties of the stock movements (SpecStock).                          *)

\* the quantity of a StockRecord, 0 when there is none
Qty(pw, pid, w_id) ==
  IF <<pid, w_id>> \in DOMAIN pw /\ IsNum(pw[<<pid, w_id>>]) THEN pw[<<pid, w_id>>].n
  ELSE 0

\* the StockRecord is absent or holds less than the requested quantity
Short(pid, w_id, quantity) ==
  \/ <<pid, w_id>> \notin DOMAIN product_warehouse
  \/ /\ IsNum(product_warehouse[<<pid, w_id>>])
     /\ product_warehouse[<<pid, w_id>>].n < quantity.n

\* C1: stock non-negativity. In every state reachable by TAKE_STOCK,
\* RETURN_STOCK, TRANSFER_STOCK, MOVE_PRODUCT and RECEIVE_ORDER commands with
\* arbitrary integer quantities, every StockRecord quantity is >= 0.
C1_StockNonNegative ==
  \A k \in DOMAIN product_warehouse :
    IsNum(product_warehouse[k]) /\ product_warehouse[k].n >= 0

\* C2: transfer atomicity. For every product and every pair of resolvable
\* warehouses, a TRANSFER_STOCK that succeeds has decreased the source
\* StockRecord by the requested quantity, increased (or created) the
\* destination StockRecord by the same quantity and appended one `transfer`
\* TransactionRecord with both warehouse ids; one that fails has changed
\* no StockRecord and appended nothing.
C2_TransferAtomicity ==
  [][cmd'.action = "TRANSFER_STOCK" /\ cmd'.hasParams /\ IsNum(cmd'.params.quantity) =>
       LET params == cmd'.params
           quantity == params.quantity.n
       IN IF result'.success
          THEN \E product \in findProduct(params.product),
                  from \in findWarehouse(params.from_warehouse),
                  to \in findWarehouse(params.to_warehouse) :
                 /\ product # 0 /\ from # 0 /\ to # 0
                 /\ Qty(product_warehouse', product, from)
                      = Qty(product_warehouse, product, from) - quantity
                 /\ <<product, to>> \in DOMAIN product_warehouse'
                 /\ Qty(product_warehouse', product, to)
                      = Qty(product_warehouse, product, to) + quantity
                 /\ transactions' =
                      Append(transactions,
                             Transaction(quantity, "transfer", product, from, to, 0))
          ELSE UNCHANGED <<product_warehouse, transactions>>]_vars

\* the order a RECEIVE_ORDER proposal selects when exactly one open order
\* matches, as a set of po_ids
ReceiveTarget(params) ==
  {o \in DOMAIN orders :
     \A warehouse \in findWarehouse(params.warehouse) :
       matchingOrders(params, warehouse) = <<o>>}

\* the proposal asks for more than the state holds: the source StockRecord
\* is absent or short, or the amount exceeds the order's remaining quantity
MustReject(parsed) ==
  LET params == parsed.params
      quantity == params.quantity
  IN
  /\ parsed.hasParams
  /\ IsNum(quantity)
  /\ \/ /\ parsed.action = "TAKE_STOCK"
        /\ \A product \in findProduct(params.product),
              warehouse \in findWarehouse(params.warehouse) :
             product # 0 /\ warehouse # 0 /\ Short(product, warehouse, quantity)
     \/ /\ parsed.action = "TRANSFER_STOCK"
        /\ \A product \in findProduct(params.product),
              from \in findWarehouse(params.from_warehouse),
              to \in findWarehouse(params.to_warehouse) :
             product # 0 /\ from # 0 /\ to # 0 /\ Short(product, from, quantity)
     \/ /\ parsed.action = "MOVE_PRODUCT"
        /\ \A product \in findProduct(params.product),
              to \in findWarehouse(params.to_warehouse) :
             /\ product # 0 /\ to # 0
             /\ IF Truthy(params.from_warehouse)
                THEN \A from \in findWarehouse(params.from_warehouse) :
                       from # 0 /\ Short(product, from, quantity)
                ELSE \A w \in DOMAIN warehouses : Short(product, w, quantity)
     \/ /\ parsed.action = "RECEIVE_ORDER"
        /\ \E o \in ReceiveTarget(params) : quantity.n > orders[o].quantity

\* C5: state unchanged on invariant violation. Whenever TAKE_STOCK,
\* TRANSFER_STOCK or MOVE_PRODUCT meets an absent or short source StockRecord,
\* or RECEIVE_ORDER an amount above the order's remaining quantity, the
\* result has success=false and every StockRecord, order, product total and
\* the transaction log are as before the command.
C5_RejectionChangesNothing ==
  [][MustReject(cmd') =>
       /\ ~result'.success
       /\ UNCHANGED <<product_warehouse, orders, products, transactions>>]_vars

\* TAKE_STOCK of 1 "ab" from "e", where there is no StockRecord, was rejected
\* and created none
C5_Witness ==
  /\ cmd.action = "TAKE_STOCK"
  /\ cmd.hasParams
  /\ cmd.params.product = ab /\ cmd.params.warehouse = e /\ cmd.params.quantity = Num(1)
  /\ <<1, 2>> \notin DOMAIN product_warehouse
  /\ ~result.success
  /\ result.message = "Insufficient stock"

----------------------------------------------------------------------------
(* Properties of the order lifecycle (SpecOrders).                         *)

\* the sum of the amounts of the `receive` rows of the log that name the order
RECURSIVE Posted(_, _)
Posted(log, po_id) ==
  IF log = <<>> THEN 0
  ELSE (IF Head(log).type = "receive" /\ Head(log).po_id = po_id THEN Head(log).amt ELSE 0)
         + Posted(Tail(log), po_id)

C4_ReceivedIffComplete ==
  \A o \in DOMAIN orders : orders[o].status = "received" <=> orders[o].quantity = 0

\* the command cannot tell which order or product is meant
Ambiguous(parsed) ==
  LET params == parsed.params
  IN
  /\ parsed.hasParams
  /\ \/ /\ parsed.action = "RECEIVE_ORDER"
        /\ \A warehouse \in findWarehouse(params.warehouse) :
             Len(matchingOrders(params, warehouse)) > 1
     \/ /\ parsed.action = "UPDATE_ORDER_STATUS"
        /\ Falsy(params.order_id)
        /\ Len(selectOrder(params)) > 1
     \/ /\ parsed.action = "CREATE_ORDER"
        /\ Truthy(params.warehouse)
        /\ 0 \notin findWarehouse(params.warehouse)
        /\ Falsy(params.supplier) \/ 0 \notin findSupplier(params.supplier)
        /\ IsStr(params.product)
        /\ findProductExact(params.product) = {0}
        /\ findSimilarProducts(params.product) # <<>>

\* C6: no mutation on ambiguity. Whenever RECEIVE_ORDER matches more than
\* one open order, UPDATE_ORDER_STATUS by product matches more than one
\* order, or CREATE_ORDER names a product with no exact match but with
\* similar products, the result has success=false, the store is unchanged
\* and no candidate was selected.
C6_AmbiguityChangesNothing ==
  [][Ambiguous(cmd') =>
       /\ ~result'.success
       /\ result'.orderId = 0
       /\ UNCHANGED store]_vars

\* RECEIVE_ORDER of "ab" met two open orders for it and listed both
C6_Witness ==
  /\ cmd.action = "RECEIVE_ORDER"
  /\ cmd.params.order_id = Undefined /\ cmd.params.product = ab
  /\ result.message = "Multiple orders found"
  /\ result.pendingOrders = <<1, 2>>
  /\ Len(transactions) = 1

\* C7: RECEIVE_ORDER postcondition. When exactly one open order matches and
\* the received amount r (the quantity given, or the remaining quantity when
\* none is given) satisfies 1 <= r <= remaining, the remaining quantity
\* becomes remaining - r, the status `partial` if that is > 0 and `received`
\* otherwise, the StockRecord of the order's product and target warehouse
\* grows by r (created if absent), the product total grows by r, and one
\* `receive` TransactionRecord with amount r is appended.
C7_ReceivePostcondition ==
  [][cmd'.action = "RECEIVE_ORDER" /\ cmd'.hasParams =>
       \A o \in ReceiveTarget(cmd'.params) :
         LET quantity == cmd'.params.quantity
             order == orders[o]
             remaining == order.quantity
             r == IF quantity = Undefined THEN remaining ELSE quantity.n
         IN 1 <= r /\ r <= remaining =>
              /\ result'.success
              /\ orders' = [orders EXCEPT
                              ![o].quantity = remaining - r,
                              ![o].status = IF remaining - r > 0 THEN "partial"
                                            ELSE "received"]
              /\ <<order.p_id, order.target_w_id>> \in DOMAIN product_warehouse'
              /\ \A k \in DOMAIN product_warehouse' :
                   Qty(product_warehouse', k[1], k[2])
                     = Qty(product_warehouse, k[1], k[2])
                         + (IF k = <<order.p_id, order.target_w_id>> THEN r ELSE 0)
              /\ products' = [products EXCEPT ![order.p_id].quantity = @ + r]
              /\ transactions' =
                   Append(transactions,
                          Transaction(r, "receive", order.p_id, order.target_w_id, 0, o))]_vars

\* 1 of the 2 units of a new order was received into a warehouse that had
\* no StockRecord of the product
C7_Witness ==
  /\ cmd.action = "RECEIVE_ORDER"
  /\ cmd.params.order_id = Num(2) /\ cmd.params.quantity = Num(1)
  /\ result.success /\ result.message = "Partially received"
  /\ Len(orders) = 2
  /\ orders[2].quantity = 1 /\ orders[2].status = "partial"
  /\ transactions[Len(transactions)].po_id = 2

\* C8: reorder lineage. For every order selected unambiguously, by order_id
\* or by product, UPDATE_ORDER_STATUS with status=reordered creates exactly
\* one new order, `pending`, with the product, supplier, target warehouse,
\* quantity and price of the original, sets the original to `reordered` and
\* deletes no order.
C8_ReorderLineage ==
  [][/\ cmd'.action = "UPDATE_ORDER_STATUS"
     /\ cmd'.hasParams
     /\ cmd'.params.status = Status("reordered")
     /\ Len(selectOrder(cmd'.params)) = 1
     => LET o == selectOrder(cmd'.params)[1]
            new == Len(orders) + 1
        IN /\ result'.success
           /\ DOMAIN orders' = DOMAIN orders \cup {new}
           /\ orders'[new].status = "pending"
           /\ orders'[new].p_id = orders[o].p_id
           /\ orders'[new].sup_id = orders[o].sup_id
           /\ orders'[new].target_w_id = orders[o].target_w_id
           /\ orders'[new].quantity = orders[o].quantity
           /\ orders'[new].price = orders[o].price
           /\ orders'[o] = [orders[o] EXCEPT !.status = "reordered"]
           /\ \A i \in DOMAIN orders \ {o} : orders'[i] = orders[i]]_vars

\* the partially received order 1 was reordered: order 2 is its clone
C8_Witness ==
  /\ cmd.action = "UPDATE_ORDER_STATUS"
  /\ cmd.params.status = Status("reordered")
  /\ result.success /\ result.orderId = 2
  /\ Len(orders) = 2
  /\ orders[1].status = "reordered"
  /\ orders[2].status = "pending" /\ orders[2].quantity = orders[1].quantity

----------------------------------------------------------------------------
(* Properties of dispatch as a whole (Spec).                               *)

\* C9: the transaction log is append-only. Across every step, the sequence
\* of TransactionRecords before the step is a prefix of the sequence after
\* it: no handler updates or deletes a TransactionRecord.
C9_LogAppendOnly ==
  [][/\ Len(transactions) <= Len(transactions')
     /\ SubSeq(transactions', 1, Len(transactions)) = transactions]_vars

\* TAKE_STOCK appended its row behind the receipt already in the log
C9_Witness ==
  /\ cmd.action = "TAKE_STOCK"
  /\ result.success
  /\ Len(transactions) = 2
  /\ transactions[1] = Transaction(1, "receive", 1, 1, 0, 1)
  /\ transactions[2].type = "take"

\* the parameters a handler cannot do without
Required(action) ==
  CASE action \in {"TAKE_STOCK", "RETURN_STOCK"} -> {"product", "warehouse", "quantity"}
    [] action = "TRANSFER_STOCK" -> {"product", "from_warehouse", "to_warehouse", "quantity"}
    [] action = "MOVE_PRODUCT" -> {"product", "to_warehouse"}
    [] action = "CREATE_ORDER" -> {"product", "warehouse", "quantity"}
    [] action = "UPDATE_ORDER_STATUS" -> {"status"}
    [] action \in {"ADD_PRODUCT", "ADD_SUPPLIER", "ADD_WAREHOUSE"} -> {"name"}
    [] action = "VIEW_PRODUCTS_IN_WAREHOUSE" -> {"warehouse"}
    [] OTHER -> {}

\* the proposal lacks a required parameter, or the whole params object
Lacking(parsed) ==
  \E f \in Required(parsed.action) : ~parsed.hasParams \/ parsed.params[f] = Undefined

\* C10: missing parameters never crash. For every known action and every
\* proposal that lacks a required parameter (or has no params object),
\* dispatch returns a success=false envelope of the handler: never the 500
\* envelope of the top-level boundary, never success=true.
C10_MissingParamsFail ==
  Lacking(cmd) => ~result.success /\ result.status = 200

----------------------------------------------------------------------------
(* Claims C14 to C16, on SpecStock.                                        *)

\* the quantity a MOVE_PRODUCT proposal requests: 1 when none is given
Requested(params) ==
  IF params.quantity = Undefined THEN 1 ELSE params.quantity.n

\* the warehouses whose StockRecord of the product holds at least q
Sufficient(pid, q) ==
  {w \in DOMAIN warehouses :
     <<pid, w>> \in DOMAIN product_warehouse /\ Qty(product_warehouse, pid, w) >= q}

\* the warehouses of a set that hold the most of the product
Greatest(pid, locations) ==
  {w \in locations :
     \A v \in locations :
       Qty(product_warehouse, pid, v) <= Qty(product_warehouse, pid, w)}

\* the StockRecords of the product that hold more than nothing
Nonzero(pid) ==
  {k \in DOMAIN product_warehouse :
     k[1] = pid /\ Qty(product_warehouse, pid, k[2]) > 0}

\* the elements of a sequence
Range(seq) == {seq[i] : i \in DOMAIN seq}

\* C14: MOVE_PRODUCT source selection. When from_warehouse is omitted and
\* the requested quantity is q (1 when none is given): if some StockRecord
\* of the product away from the destination holds at least q, the move is
\* made from one that holds the most; if only the destination holds at least
\* q, the command fails with "Product is already in" and changes nothing;
\* if no StockRecord holds at least q, the command fails naming the nonzero
\* locations and changes nothing. No successful MOVE_PRODUCT has its source
\* equal to its destination.
C14_MoveSourceSelection ==
  [][(/\ cmd'.action = "MOVE_PRODUCT"
      /\ cmd'.hasParams
      /\ cmd'.params.quantity = Undefined \/ IsNum(cmd'.params.quantity))
     =>
     LET params == cmd'.params
         q == Requested(params)
     IN
     /\ result'.success =>
          /\ transactions' # transactions
          /\ LET moved == transactions'[Len(transactions')]
             IN moved.w_id # moved.target_w_id
     /\ \A pid \in findProduct(params.product),
           to \in findWarehouse(params.to_warehouse) :
          (params.from_warehouse = Undefined /\ pid # 0 /\ to # 0) =>
            LET sufficient == Sufficient(pid, q)
                away == sufficient \ {to}
            IN
            /\ away # {} =>
                 /\ result'.success
                 /\ Len(transactions') = Len(transactions) + 1
                 /\ LET moved == transactions'[Len(transactions')]
                    IN /\ moved.pid = pid
                       /\ moved.target_w_id = to
                       /\ moved.w_id \in Greatest(pid, away)
            /\ (away = {} /\ sufficient # {}) =>
                 /\ ~result'.success
                 /\ result'.message = "Product is already in"
                 /\ store' = store
            /\ sufficient = {} =>
                 /\ ~result'.success
                 /\ result'.message = "Could not find sufficient stock"
                 /\ Range(result'.data) = Nonzero(pid)
                 /\ store' = store
    ]_vars

\* C15: MOVE_PRODUCT with a determined source is TRANSFER_STOCK. In every
\* state, for every product, every pair of warehouses (from, to) and every
\* quantity q >= 1, MOVE_PRODUCT(product, to, q, from) and
\* TRANSFER_STOCK(product, from, to, q) return the same success flag, leave
\* the same StockRecords and append the same TransactionRecord or none.
C15_MoveIsTransfer ==
  \A product \in DOMAIN products, from \in DOMAIN warehouses,
     to \in DOMAIN warehouses, q \in 1 .. MaxQty :
    LET moved == moveProduct("MOVE_PRODUCT", product, from, to, Num(q))
        transferred == transferStock("TRANSFER_STOCK", product, from, to, Num(q))
    IN /\ moved.result.success = transferred.result.success
       /\ moved.product_warehouse = transferred.product_warehouse
       /\ moved.transactions = transferred.transactions

\* C16: Product.totalQuantity changes only in a successful RECEIVE_ORDER and
\* never decreases. Every command leaves the total of every existing product
\* equal or larger, whatever integer quantity it carries, and leaves it
\* unchanged unless the command is a RECEIVE_ORDER that succeeds.
C16_TotalQuantityFrame ==
  [][\A p \in DOMAIN products :
       /\ products'[p].quantity >= products[p].quantity
       /\ products'[p].quantity # products[p].quantity =>
            cmd'.action = "RECEIVE_ORDER" /\ result'.success
    ]_vars

----------------------------------------------------------------------------
(* Claims C17 and C18, on SpecOrders.                                      *)

\* the orders a RECEIVE_ORDER step completes
Completed(before, after) ==
  {o \in DOMAIN before :
     before[o].status # "received" /\ after[o].status = "received"}

\* C17, as stated: a successful RECEIVE_ORDER that completes the order
\* (status becomes `received`) returns requiresBillUpload = true with the
\* order id, and the console opens the bill upload.
C17_BillOnFullReceipt ==
  [][(cmd'.action = "RECEIVE_ORDER" /\ result'.success) =>
       \A o \in Completed(orders, orders') :
         /\ result'.requiresBillUpload
         /\ result'.orderId = o
         /\ billUploadOpen(result')
    ]_vars

\* C17, amended: every successful RECEIVE_ORDER, completing the order or
\* not, returns requiresBillUpload = false with the id of the order it
\* received, and the console does not open the bill upload.
C17_NoBillOnReceipt ==
  [][(cmd'.action = "RECEIVE_ORDER" /\ result'.success) =>
       /\ ~result'.requiresBillUpload
       /\ result'.orderId \in DOMAIN orders
       /\ orders'[result'.orderId] # orders[result'.orderId]
       /\ \A o \in Completed(orders, orders') : result'.orderId = o
       /\ ~billUploadOpen(result')
    ]_vars

\* a RECEIVE_ORDER has just completed the second order
C17_Witness ==
  /\ cmd.action = "RECEIVE_ORDER"
  /\ result.success /\ result.message = "fully received"
  /\ result.orderId = 2
  /\ orders[2].status = "received" /\ orders[2].quantity = 0

\* C18: every ambiguity failure carries a structured candidate list of 1 to
\* 5 entries beside its message: suggestedProducts when CREATE_ORDER finds
\* similar products, pendingOrders when RECEIVE_ORDER or UPDATE_ORDER_STATUS
\* by product matches several orders.
C18_AmbiguityCarriesCandidates ==
  [][Ambiguous(cmd') =>
       LET candidates == IF cmd'.action = "CREATE_ORDER"
                         THEN result'.suggestedProducts
                         ELSE result'.pendingOrders
       IN /\ ~result'.success
          /\ candidates # <<>>
          /\ Len(candidates) <= 5
    ]_vars

----------------------------------------------------------------------------
(* Claims C11 to C13, C19 and C20, on SpecCatalog.                         *)

\* the products whose name equals the text when case is ignored
EqualTo(text) ==
  {p \in DOMAIN products : toLowerCase(products[p].p_name) = toLowerCase(text)}

\* the products whose name contains the text when case is ignored
Containing(text) ==
  {p \in DOMAIN products : includes(toLowerCase(products[p].p_name), toLowerCase(text))}

\* C11: strict-exact product resolution in CREATE_ORDER. An order created by
\* CREATE_ORDER for a product that existed before the command is for a
\* product whose name equals the product text when case is ignored; when no
\* product has such a name but some product contains the text or is similar
\* to it, no order is created, and once warehouse and supplier are resolved
\* the result carries those candidates as suggestedProducts.
C11_StrictExactProduct ==
  [][(cmd'.action = "CREATE_ORDER" /\ cmd'.hasParams /\ IsStr(cmd'.params.product)) =>
       LET params == cmd'.params
           text == params.product.s
           candidates == Containing(text) \cup Range(findSimilarProducts(params.product))
       IN
       /\ orders' # orders =>
            LET order == orders'[Len(orders')]
            IN order.p_id \in DOMAIN products => order.p_id \in EqualTo(text)
       /\ (EqualTo(text) = {} /\ candidates # {}) =>
            /\ orders' = orders
            /\ (/\ Truthy(params.warehouse)
                /\ 0 \notin findWarehouse(params.warehouse)
                /\ Falsy(params.supplier) \/ 0 \notin findSupplier(params.supplier))
               => /\ result'.suggestedProducts # <<>>
                  /\ Range(result'.suggestedProducts) \subseteq candidates
    ]_vars

\* the number a unit_price parameter spells once "$" and "," are stripped,
\* NaN when it spells none
Price(unit_price) ==
  parseFloat(SelectSeq(String(unit_price), LAMBDA c : c \notin {"$", ","}))

\* the conditions under which CREATE_ORDER is to create the product
AutoCreate(params) ==
  /\ Truthy(params.warehouse) /\ 0 \notin findWarehouse(params.warehouse)
  /\ params.supplier # Undefined => 0 \notin findSupplier(params.supplier)
  /\ EqualTo(params.product.s) = {}
  /\ findSimilarProducts(params.product) = <<>>
  /\ params.unit_price # Undefined /\ IsNum(Price(params.unit_price))

\* C12: auto-create trigger. CREATE_ORDER creates a product if and only if
\* the target warehouse resolves, the supplier (when given) resolves, no
\* product name equals the product text, the similarity search is empty and
\* unit_price is present and spells a number once currency symbols are
\* stripped; the product created has the given name, that price and total
\* quantity 0. Otherwise the products are left as they were.
C12_AutoCreateTrigger ==
  [][(cmd'.action = "CREATE_ORDER" /\ cmd'.hasParams /\ IsStr(cmd'.params.product)) =>
       LET params == cmd'.params
       IN IF AutoCreate(params)
          THEN /\ Len(products') = Len(products) + 1
               /\ products'[Len(products')] =
                    [p_name |-> params.product.s,
                     unit_price |-> Price(params.unit_price).n,
                     quantity |-> 0]
          ELSE Len(products') = Len(products)
    ]_vars

\* C13: CREATE_ORDER postcondition. Every successful CREATE_ORDER with
\* quantity q appends exactly one order: `pending`, q still to receive, for
\* the resolved product, target warehouse and supplier (or none), with price
\* u * q where u is the provided unit price when one is given and the stored
\* price of the product otherwise; a provided price becomes the stored price
\* of the product; the result carries requiresBillUpload = true and the id
\* of the new order; StockRecords, total quantities and TransactionRecords
\* are unchanged.
C13_CreateOrderPostcondition ==
  [][(cmd'.action = "CREATE_ORDER" /\ result'.success) =>
       LET params == cmd'.params
           q == params.quantity.n
           po_id == Len(orders) + 1
           order == orders'[po_id]
           pid == order.p_id
           given == params.unit_price # Undefined
           u == IF given THEN Price(params.unit_price).n
                ELSE IF pid \in DOMAIN products THEN products[pid].unit_price
                ELSE 0
       IN
       /\ Len(orders') = po_id
       /\ SubSeq(orders', 1, Len(orders)) = orders
       /\ order.status = "pending"
       /\ order.quantity = q /\ origQuantity'[po_id] = q
       /\ (pid \in findProductExact(params.product)) \/ (pid = Len(products) + 1)
       /\ order.target_w_id \in findWarehouse(params.warehouse) \ {0}
       /\ order.sup_id \in findSupplier(params.supplier)
       /\ order.price = u * q
       /\ products'[pid].unit_price = u
       /\ result'.requiresBillUpload /\ result'.orderId = po_id
       /\ product_warehouse' = product_warehouse
       /\ transactions' = transactions
       /\ \A p \in DOMAIN products :
            /\ products'[p].quantity = products[p].quantity
            /\ products'[p].p_name = products[p].p_name
    ]_vars

\* the text identifiers resolved: names of the store, in the case the
\* interpreter may spell them, and parts of names
Identifiers == {ab, abc, mw, e, su, sux}

\* the rows of a sequence of names that equal the identifier when case is ignored
Exact(names, identifier) ==
  {r \in DOMAIN names : toLowerCase(names[r]) = toLowerCase(identifier.s)}

\* every row the resolution may return is an exact match whenever one exists
ExactFirst(names, identifier, resolved) ==
  Exact(names, identifier) # {} => resolved \subseteq Exact(names, identifier)

\* C19: exact match takes precedence over substring match. For products,
\* warehouses and suppliers and every text identifier, if the name of some
\* entity equals the identifier when case is ignored, resolution returns an
\* entity with such a name and never one that only contains the identifier.
C19_ExactBeforeSubstring ==
  \A identifier \in Identifiers :
    /\ ExactFirst([p \in DOMAIN products |-> products[p].p_name], identifier,
                  findProduct(identifier))
    /\ ExactFirst([w \in DOMAIN warehouses |-> warehouses[w].w_name], identifier,
                  findWarehouse(identifier))
    /\ ExactFirst([s \in DOMAIN suppliers |-> suppliers[s].s_name], identifier,
                  findSupplier(identifier))

\* two resolutions of the identifier in the same state return the same row
Same(resolved) == \A first \in resolved, second \in resolved : first = second

\* C20: idempotent resolution. In every state reached through ADD_PRODUCT,
\* ADD_WAREHOUSE, ADD_SUPPLIER and the auto-creation of CREATE_ORDER, two
\* resolutions of a name that has an exact match, with no write in between,
\* return the same entity; the resolution of a numeric id that has no row
\* returns null.
C20_IdempotentResolution ==
  /\ \A identifier \in Identifiers :
       /\ Exact([p \in DOMAIN products |-> products[p].p_name], identifier) # {}
            => Same(findProduct(identifier))
       /\ Exact([w \in DOMAIN warehouses |-> warehouses[w].w_name], identifier) # {}
            => Same(findWarehouse(identifier))
       /\ Exact([s \in DOMAIN suppliers |-> suppliers[s].s_name], identifier) # {}
            => Same(findSupplier(identifier))
  /\ \A id \in 1 .. MaxRows + 1 :
       /\ id \notin DOMAIN products =>
            findProduct(Num(id)) = {0} /\ findProductExact(Num(id)) = {0}
       /\ id \notin DOMAIN warehouses => findWarehouse(Num(id)) = {0}
       /\ id \notin DOMAIN suppliers => findSupplier(Num(id)) = {0}

----------------------------------------------------------------------------
(* Claim C21, on SpecStock.                                                *)

\* C21: TAKE_STOCK postcondition. For a resolved product and warehouse whose
\* StockRecord holds s and a requested quantity q with 1 <= q <= s,
\* TAKE_STOCK succeeds, that StockRecord becomes s - q, every other
\* StockRecord is unchanged and exactly one `take` TransactionRecord with
\* amount q for that product and warehouse is appended.
C21_TakePostcondition ==
  [][(cmd'.action = "TAKE_STOCK" /\ cmd'.hasParams /\ IsNum(cmd'.params.quantity)) =>
       \A product \in findProduct(cmd'.params.product) \ {0},
          warehouse \in findWarehouse(cmd'.params.warehouse) \ {0} :
         LET k == <<product, warehouse>>
             q == cmd'.params.quantity.n
             s == Qty(product_warehouse, product, warehouse)
         IN (k \in DOMAIN product_warehouse /\ IsNum(product_warehouse[k])
               /\ 1 <= q /\ q <= s) =>
              /\ result'.success
              /\ product_warehouse' = [product_warehouse EXCEPT ![k] = Num(s - q)]
              /\ transactions' =
                   Append(transactions, Transaction(q, "take", product, warehouse, 0, 0))
    ]_vars

\* the one unit of Ab in Mw has just been taken
C21_Witness ==
  /\ cmd.action = "TAKE_STOCK"
  /\ cmd.params.product = ab /\ cmd.params.warehouse = mw /\ cmd.params.quantity = Num(1)
  /\ result.success
  /\ product_warehouse[<<1, 1>>] = Num(0)
  /\ transactions[Len(transactions)] = Transaction(1, "take", 1, 1, 0, 0)

----------------------------------------------------------------------------
(* Claim C22, on Spec, and claim C23, on SpecCatalog.                      *)

\* the action strings that have a handler
Handlers ==
  {"VIEW_PRODUCTS", "VIEW_PRODUCTS_IN_WAREHOUSE", "VIEW_WAREHOUSES", "VIEW_SUPPLIERS",
   "VIEW_ORDERS", "VIEW_TRANSACTIONS", "VIEW_STOCK", "TAKE_STOCK", "RETURN_STOCK",
   "CREATE_ORDER", "RECEIVE_ORDER", "UPDATE_ORDER_STATUS", "ADD_PRODUCT", "ADD_SUPPLIER",
   "ADD_WAREHOUSE", "MOVE_PRODUCT", "TRANSFER_STOCK"}

\* C22: unknown action. For every action string outside the set of handlers
\* (UNCLEAR and a missing action included) dispatch returns success = false
\* with the interpreter's message, or "Command not recognized" when there is
\* none, throws nothing and leaves the store unchanged.
C22_UnknownActionRejected ==
  [][cmd'.action \notin Handlers =>
       /\ ~result'.success
       /\ result'.status = 200
       /\ result'.message = IF Truthy(cmd'.message) THEN "(interpreter message)"
                             ELSE "Command not recognized"
       /\ store' = store
    ]_vars

\* a proposal without an action and without a message was just answered
C22_Witness ==
  /\ cmd.action = NoAction /\ cmd.message = Undefined
  /\ ~result.success /\ result.message = "Command not recognized"

\* C23: CREATE_ORDER without a target warehouse is rejected before any
\* resolution or write. The result has success = false with the guidance
\* message; no product is created, no price is updated and no order is
\* inserted, also when the product is unknown and a unit price is given.
C23_OrderNeedsWarehouse ==
  [][(cmd'.action = "CREATE_ORDER" /\ cmd'.hasParams
        /\ cmd'.params.warehouse = Undefined) =>
       /\ ~result'.success
       /\ result'.message = "Please specify the target warehouse"
       /\ result'.suggestedProducts = <<>>
       /\ products' = products
       /\ orders' = orders
       /\ store' = store
    ]_vars

\* an order of the unknown product xy at $3 without a warehouse was refused
C23_Witness ==
  /\ cmd.action = "CREATE_ORDER" /\ cmd.hasParams
  /\ cmd.params.warehouse = Undefined
  /\ cmd.params.product = xy /\ cmd.params.unit_price = dollar3
  /\ findProduct(xy) = {0}
  /\ ~result.success /\ result.message = "Please specify the target warehouse"

----------------------------------------------------------------------------
(* Claims C24 and C25, on SpecRace.                                        *)

\* the call has returned success
Succeeded(c) == calls[c].pc = "done" /\ calls[c].success

\* two TAKE_STOCK of the same quantity q on the same StockRecord have both
\* succeeded on the same reading s with q <= s < 2q, and no other command
\* has started
BothTook(c, d) ==
  /\ c # d
  /\ calls[c].action = "TAKE_STOCK" /\ calls[d].action = "TAKE_STOCK"
  /\ Succeeded(c) /\ Succeeded(d)
  /\ calls[c].product = calls[d].product
  /\ calls[c].warehouse = calls[d].warehouse
  /\ calls[c].quantity = calls[d].quantity
  /\ calls[c].row = calls[d].row
  /\ calls[c].quantity.n <= calls[c].row.stock.n
  /\ calls[c].row.stock.n < 2 * calls[c].quantity.n
  /\ \A other \in Calls \ {c, d} : calls[other].pc = "idle"

\* the log holds two take records of q units and the stock went down by q
LostUpdate(c) ==
  LET call == calls[c]
      q == call.quantity.n
      s == call.row.stock.n
  IN /\ transactions = <<Transaction(q, "take", call.product, call.warehouse, 0, 0),
                         Transaction(q, "take", call.product, call.warehouse, 0, 0)>>
     /\ product_warehouse[<<call.product, call.warehouse>>] = Num(s - q)

\* C24: check-then-act race. Two TAKE_STOCK on the same product and
\* warehouse, each of q units, interleaved store call by store call on a
\* stock s with q <= s < 2q, can both pass the check on the same reading and
\* both return success; then two take records totalling 2q are in the log
\* and the stock has gone down by q only.
C24_CheckThenActRace ==
  \A c, d \in Calls : BothTook(c, d) => LostUpdate(c)

\* both commands took the last Stocked units of Ab in Mw
C24_Witness ==
  /\ BothTook(1, 2)
  /\ calls[1].row = [stock |-> Num(Stocked)]
  /\ Len(transactions) = 2
  /\ product_warehouse[<<1, 1>>] = Num(Stocked - calls[1].quantity.n)

\* C25: non-negativity survives races. Under every interleaving, store call
\* by store call, of TAKE_STOCK, TRANSFER_STOCK, MOVE_PRODUCT, RETURN_STOCK
\* and RECEIVE_ORDER with quantities of at least 1, every StockRecord holds
\* a quantity of at least 0 in every state.
C25_NonNegativeUnderRaces ==
  \A pid \in DOMAIN products, w_id \in DOMAIN warehouses :
    <<pid, w_id>> \in DOMAIN product_warehouse =>
      /\ IsNum(product_warehouse[<<pid, w_id>>])
      /\ product_warehouse[<<pid, w_id>>].n >= 0

\* a transfer and a take of the same unit of Ab have both succeeded
C25_Witness ==
  \E c, d \in Calls :
    /\ calls[c].action = "TRANSFER_STOCK" /\ calls[d].action = "TAKE_STOCK"
    /\ Succeeded(c) /\ Succeeded(d)
    /\ calls[d].row = [stock |-> Num(Stocked)]
    /\ calls[d].quantity = Num(Stocked)
    /\ product_warehouse[<<1, 1>>] = Num(0)
    /\ product_warehouse[<<1, 2>>] = Num(1)

----------------------------------------------------------------------------
(* Claim C26, on SpecRace.                                                 *)

\* the commands started so far are at most two RECEIVE_ORDER of order 1
OnlyReceipts ==
  /\ \A c \in Calls : calls[c].action \in {NoAction, "RECEIVE_ORDER"}
  /\ Cardinality({c \in Calls : calls[c].action = "RECEIVE_ORDER"}) <= 2

\* C26: receipt conservation under concurrency. Under every interleaving,
\* store call by store call, of two RECEIVE_ORDER that select the same
\* order, the amount posted for that order to the target StockRecord and to
\* the total quantity of the product does not exceed the quantity the order
\* had remaining before the two commands started.
C26_ReceiptConservation ==
  OnlyReceipts =>
    /\ product_warehouse[<<1, 1>>].n - Stocked <= origQuantity[1]
    /\ products[1].quantity - Stocked <= origQuantity[1]

----------------------------------------------------------------------------
(* Claims C27, C28 and C30, on SpecOrders.                                 *)

\* the place of a status in the lifecycle
Stage(status) ==
  CASE status = "pending" -> 1
    [] status = "approved" -> 2
    [] status = "ordered" -> 3
    [] status = "shipped" -> 4
    [] status \in {"received", "partial", "cancelled", "reordered"} -> 5
    [] OTHER -> 0

\* a move of the lifecycle: forward out of the first four statuses, and out
\* of partial to received only
Follows(from, to) ==
  \/ to = from
  \/ Stage(from) \in 1 .. 4 /\ Stage(to) > Stage(from)
  \/ from = "partial" /\ to = "received"

\* C27: order lifecycle. Every status change a handler applies to an order
\* follows pending -> approved -> ordered -> shipped -> {received, partial,
\* cancelled, reordered}, with partial -> partial and partial -> received
\* the only moves out of partial: no command moves a status backwards and
\* an order in received, cancelled or reordered never changes status again.
C27_OrderLifecycle ==
  [][\A o \in DOMAIN orders : Follows(orders[o].status, orders'[o].status)]_vars

\* the statuses of an order that is no longer open
Closed == {"received", "cancelled", "reordered"}

\* C28: only open orders can be received. RECEIVE_ORDER, by order_id or by
\* filters, never posts stock for, nor changes the quantity or the status
\* of, an order that is received, cancelled or reordered at lookup; a
\* request for such an order returns success = false and changes nothing.
C28_OnlyOpenOrdersReceived ==
  [][cmd'.action = "RECEIVE_ORDER" =>
       \A o \in DOMAIN orders :
         orders[o].status \in Closed =>
           /\ orders'[o] = orders[o]
           /\ result'.success => result'.orderId # o
           /\ (Len(transactions') > Len(transactions)
                 => transactions'[Len(transactions')].po_id # o)
           /\ (cmd'.hasParams /\ cmd'.params.order_id = Num(o)) =>
                 /\ ~result'.success
                 /\ store' = store
    ]_vars

\* the receipt of the cancelled order 1 was just refused
C28_Witness ==
  /\ cmd.action = "RECEIVE_ORDER" /\ cmd.hasParams
  /\ cmd.params.order_id = Num(1)
  /\ orders[1].status = "cancelled" /\ orders[1].quantity = 1
  /\ ~result.success /\ result.message = "No pending orders found"

\* C30: UPDATE_ORDER_STATUS with a status other than reordered is a pure
\* status update. For every status value, received included, and every
\* order it selects, it changes the status of that one order only: the
\* quantity of the order, every other order, every StockRecord, every total
\* quantity and the log stay as they were.
C30_PureStatusUpdate ==
  [][(cmd'.action = "UPDATE_ORDER_STATUS" /\ cmd'.hasParams
        /\ cmd'.params.status # Status("reordered")) =>
       /\ products' = products
       /\ warehouses' = warehouses
       /\ suppliers' = suppliers
       /\ product_warehouse' = product_warehouse
       /\ transactions' = transactions
       /\ DOMAIN orders' = DOMAIN orders
       /\ \A o \in DOMAIN orders :
            [orders'[o] EXCEPT !.status = orders[o].status] = orders[o]
       /\ result'.success =>
            /\ \A o \in DOMAIN orders \ {result'.orderId} : orders'[o] = orders[o]
            /\ cmd'.params.status # Undefined =>
                 orders'[result'.orderId].status = cmd'.params.status.status
       /\ ~result'.success => orders' = orders
    ]_vars

\* order 1 was just marked received by a status update: its remaining unit
\* is still on the order and was not posted
C30_Witness ==
  /\ cmd.action = "UPDATE_ORDER_STATUS" /\ cmd.hasParams
  /\ cmd.params.order_id = Num(1) /\ cmd.params.status = Status("received")
  /\ result.success
  /\ orders[1].status = "received" /\ orders[1].quantity = 1
  /\ product_warehouse[<<1, 1>>] = Num(1)
  /\ products[1].quantity = 1

----------------------------------------------------------------------------
(* Claim C29, on SpecFilters.                                              *)

\* the open orders narrowed by each filter the request gives
Cascade(params, warehouse) ==
  LET open == OrdersIn(OpenStatuses)
      byProduct ==
        IF Truthy(params.product)
        THEN SelectSeq(open, LAMBDA o :
               MatchesProduct(products[orders[o].p_id].p_name, params.product))
        ELSE open
      byWarehouse ==
        IF Truthy(params.warehouse) /\ warehouse # 0
        THEN SelectSeq(byProduct, LAMBDA o : orders[o].target_w_id = warehouse)
        ELSE byProduct
      exact ==
        IF Truthy(params.quantity)
        THEN SelectSeq(byWarehouse, LAMBDA o : params.quantity = Num(orders[o].quantity))
        ELSE <<>>
  IN IF exact # <<>> THEN exact ELSE byWarehouse

\* the request gives a product or a warehouse, or no filter at all
Filtered(params) ==
  Truthy(params.product) \/ Truthy(params.warehouse) \/ Falsy(params.quantity)

\* the answer of RECEIVE_ORDER when the candidates are those given
Answers(candidates) ==
  IF candidates = <<>>
  THEN ~result'.success /\ result'.message = "No pending orders found" /\ store' = store
  ELSE IF Multiple(candidates)
  THEN /\ ~result'.success /\ result'.message = "Multiple orders found"
       /\ result'.pendingOrders = Slice5(candidates)
  ELSE \/ ~result'.success /\ result'.message = "Cannot receive"
       \/ result'.success /\ result'.orderId = candidates[1]

\* C29: RECEIVE_ORDER filter cascade. Without order_id the candidates are
\* the open orders narrowed by each filter that is given: the product text,
\* then the target warehouse when it resolves, then the exact quantity when
\* that leaves a candidate; they are all open orders only when neither
\* product nor warehouse is given. A RECEIVE_ORDER that gives only a
\* warehouse which is the target of exactly one open order proceeds with
\* that order.
C29_FilterCascade ==
  [][(cmd'.action = "RECEIVE_ORDER" /\ cmd'.hasParams
        /\ Falsy(cmd'.params.order_id) /\ Filtered(cmd'.params)) =>
       \E warehouse \in findWarehouse(cmd'.params.warehouse) :
         Answers(Cascade(cmd'.params, warehouse))
    ]_vars

----------------------------------------------------------------------------
(* Claim C31, on Spec.                                                     *)

\* the commands that move stock, and the kind of record each one logs
Movements ==
  {"TAKE_STOCK", "RETURN_STOCK", "TRANSFER_STOCK", "MOVE_PRODUCT", "RECEIVE_ORDER"}

Kind(action) ==
  CASE action = "TAKE_STOCK" -> "take"
    [] action = "RETURN_STOCK" -> "return"
    [] action = "RECEIVE_ORDER" -> "receive"
    [] OTHER -> "transfer"

\* the record t is the one of the command: its kind, its amount (1 for a
\* move without quantity, the remaining quantity q of the order for a
\* receipt without quantity), its product and its warehouses
OfCommand(t, parsed, q) ==
  LET action == parsed.action
      params == parsed.params
  IN /\ t.type = Kind(action)
     /\ Num(t.amt) = (IF params.quantity # Undefined THEN params.quantity
                      ELSE IF action = "MOVE_PRODUCT" THEN Num(1)
                      ELSE IF action = "RECEIVE_ORDER" THEN Num(q)
                      ELSE Undefined)
     /\ action # "RECEIVE_ORDER" => t.pid \in findProduct(params.product)
     /\ action \in {"TAKE_STOCK", "RETURN_STOCK"} =>
          t.w_id \in findWarehouse(params.warehouse) /\ t.target_w_id = 0
     /\ action \in {"TRANSFER_STOCK", "MOVE_PRODUCT"} =>
          /\ t.target_w_id \in findWarehouse(params.to_warehouse)
          /\ Truthy(params.from_warehouse) =>
               t.w_id \in findWarehouse(params.from_warehouse)
     /\ action = "RECEIVE_ORDER" => t.po_id = result'.orderId

\* C31: one record per movement. Each successful TAKE_STOCK, RETURN_STOCK,
\* TRANSFER_STOCK, MOVE_PRODUCT and RECEIVE_ORDER appends exactly one
\* TransactionRecord whose kind, amount, product and warehouses are those of
\* the command; every failed command and every CREATE_ORDER,
\* UPDATE_ORDER_STATUS, ADD_* and VIEW_* command appends none.
C31_OneRecordPerMovement ==
  [][IF cmd'.action \in Movements /\ result'.success
     THEN /\ Len(transactions') = Len(transactions) + 1
          /\ SubSeq(transactions', 1, Len(transactions)) = transactions
          /\ OfCommand(transactions'[Len(transactions')], cmd',
                       IF result'.orderId \in DOMAIN orders
                       THEN orders[result'.orderId].quantity ELSE 0)
     ELSE transactions' = transactions
    ]_vars

----------------------------------------------------------------------------
(* Claim C32, on SpecLedger.                                               *)

\* what the record t adds to the stock of pid in the warehouse w
Entry(t, pid, w) ==
  IF t.pid # pid THEN 0
  ELSE (IF t.type \in {"return", "receive"} /\ t.w_id = w THEN t.amt ELSE 0)
         + (IF t.type = "transfer" /\ t.target_w_id = w THEN t.amt ELSE 0)
         - (IF t.type = "take" /\ t.w_id = w THEN t.amt ELSE 0)
         - (IF t.type = "transfer" /\ t.w_id = w THEN t.amt ELSE 0)

\* the stock of pid in w according to the log
RECURSIVE Balance(_, _, _)
Balance(log, pid, w) ==
  IF log = <<>> THEN 0
  ELSE Balance(SubSeq(log, 1, Len(log) - 1), pid, w) + Entry(log[Len(log)], pid, w)

\* C32: the ledger agrees with the log. From a store without StockRecords
\* and without TransactionRecords, after any sequence of commands executed
\* one at a time with quantities of at least 1, for every product and
\* warehouse the StockRecord (0 if absent) equals the logged return and
\* receive amounts at the warehouse plus the transfers into it, minus the
\* logged take amounts at it and the transfers out of it.
C32_LedgerAgreesWithLog ==
  \A pid \in DOMAIN products, w \in DOMAIN warehouses :
    (IF <<pid, w>> \in DOMAIN product_warehouse THEN product_warehouse[<<pid, w>>]
     ELSE Num(0)) = Num(Balance(transactions, pid, w))

\* units of Ab were returned or received in Mw and one of them was then moved to Ew
C32_Witness ==
  /\ Len(transactions) = 2
  /\ transactions[1].type \in {"return", "receive"} /\ transactions[1].w_id = 1
  /\ transactions[2] = Transaction(1, "transfer", 1, 1, 2, 0)
  /\ product_warehouse[<<1, 2>>] = Num(1)
  /\ product_warehouse[<<1, 1>>] = Num(transactions[1].amt - 1)

----------------------------------------------------------------------------
(* Claim C33, on SpecStock.                                                *)

\* the units of pid on hand over the warehouses W
RECURSIVE OnHand(_, _, _)
OnHand(pw, pid, W) ==
  IF W = {} THEN 0
  ELSE LET w == CHOOSE x \in W : TRUE
       IN Qty(pw, pid, w) + OnHand(pw, pid, W \ {w})

\* the StockRecords of the products other than pid
Others(pw, pid) == [k \in {x \in DOMAIN pw : x[1] # pid} |-> pw[k]]

\* C33: transfers conserve the on-hand stock of a product. Every
\* TRANSFER_STOCK and MOVE_PRODUCT executed without interleaving, successful
\* or not and for any integer quantity, leaves the sum of the StockRecords
\* of the product over all warehouses unchanged and leaves the StockRecords
\* of every other product unchanged.
C33_TransfersConserveStock ==
  [][(cmd'.action \in {"TRANSFER_STOCK", "MOVE_PRODUCT"} /\ cmd'.hasParams
        /\ (IsNum(cmd'.params.quantity) \/ cmd'.action = "MOVE_PRODUCT")) =>
       /\ \A pid \in DOMAIN products :
            OnHand(product_warehouse', pid, DOMAIN warehouses)
              = OnHand(product_warehouse, pid, DOMAIN warehouses)
       /\ \E product \in findProduct(cmd'.params.product) :
            Others(product_warehouse', product) = Others(product_warehouse, product)
    ]_vars

\* a transfer of -1 units from Mw to Ew has just succeeded: Mw holds one
\* unit more and the StockRecord of Ew is negative
C33_Witness ==
  /\ cmd.action = "TRANSFER_STOCK" /\ cmd.hasParams
  /\ cmd.params.quantity = Num(-1)
  /\ cmd.params.from_warehouse = mw /\ cmd.params.to_warehouse = e
  /\ result.success
  /\ <<1, 2>> \in DOMAIN product_warehouse
  /\ product_warehouse[<<1, 2>>].n < 0

----------------------------------------------------------------------------
(* Claim C34, on SpecCatalog.                                              *)

\* C34: a failed CREATE_ORDER leaves the product catalogue unchanged. Every
\* CREATE_ORDER that returns success = false (missing or unresolved
\* warehouse, unresolved supplier, similar products found, unknown product
\* without price, rejected order insert) leaves the set of products and the
\* stored unit price of each as they were: no auto-created product and no
\* price update survives without its order.
C34_FailedOrderKeepsCatalogue ==
  [][(cmd'.action = "CREATE_ORDER" /\ ~result'.success) => products' = products]_vars

----------------------------------------------------------------------------
(* Claim C35, on SpecOrders.                                               *)

\* C35: the price matches the quantity on every created order. An order
\* inserted by CREATE_ORDER has a price equal to the unit price of the
\* order times its quantity; an order inserted by a reorder has the unit
\* price of the order it was cloned from (the price of that order over the
\* quantity it was inserted with) times the quantity it was cloned with,
\* also when the original is partially received and its quantity holds the
\* remaining amount.
C35_PriceMatchesQuantity ==
  [][Len(orders') > Len(orders) =>
       LET new == orders'[Len(orders')]
       IN IF cmd'.action = "CREATE_ORDER"
          THEN new.price = products'[new.p_id].unit_price * new.quantity
          ELSE \A old \in DOMAIN orders :
                 (orders[old].status # "reordered" /\ orders'[old].status = "reordered") =>
                   new.price * origQuantity[old] = orders[old].price * new.quantity
    ]_vars

----------------------------------------------------------------------------
(* Claim C36, on SpecOrders.                                               *)

\* C36: requiresBillUpload is raised only at order creation. A result
\* carries requiresBillUpload = true only if success = true and the same
\* command inserted a new pending order whose id is the orderId of the
\* result (a successful CREATE_ORDER or a successful reorder); every
\* RECEIVE_ORDER result, partial or full, and every UPDATE_ORDER_STATUS
\* result other than a reorder carries it false or absent.
C36_BillOnlyAtCreation ==
  [][/\ result'.requiresBillUpload =>
          /\ result'.success
          /\ Len(orders') = Len(orders) + 1
          /\ result'.orderId = Len(orders')
          /\ orders'[Len(orders')].status = "pending"
          /\ \/ cmd'.action = "CREATE_ORDER"
             \/ cmd'.action = "UPDATE_ORDER_STATUS"
                  /\ cmd'.params.status = Status("reordered")
     /\ cmd'.action = "RECEIVE_ORDER" => ~result'.requiresBillUpload
     /\ (cmd'.action = "UPDATE_ORDER_STATUS"
           /\ cmd'.params.status # Status("reordered")) => ~result'.requiresBillUpload
    ]_vars

\* a reorder has just inserted the pending order the bill is asked for
C36_Witness ==
  /\ cmd.action = "UPDATE_ORDER_STATUS" /\ cmd.hasParams
  /\ cmd.params.status = Status("reordered")
  /\ result.success /\ result.requiresBillUpload
  /\ result.orderId = Len(orders)
  /\ orders[Len(orders)].status = "pending"
  /\ \E old \in DOMAIN orders : orders[old].status = "reordered"

----------------------------------------------------------------------------
(* Claim C37, on SpecRace.                                                 *)

\* the writes of a successful command, in the order the claim gives them:
\* StockRecords, order and product first, the TransactionRecord last
Steps(action) ==
  CASE action \in {"TAKE_STOCK", "RETURN_STOCK"} -> <<"product_warehouse", "transactions">>
    [] action \in {"TRANSFER_STOCK", "MOVE_PRODUCT"} ->
         <<"product_warehouse", "product_warehouse", "transactions">>
    [] action = "RECEIVE_ORDER" ->
         <<"orders", "product_warehouse", "products", "transactions">>
    [] OTHER -> <<>>

IsPrefix(a, b) == Len(a) <= Len(b) /\ SubSeq(b, 1, Len(a)) = a

\* the call is resolving its entities or checking its request
Checking(call) == call.pc \in {"idle", "locate", "select", "order"}

\* every command in progress has issued its writes in the fixed order, none
\* of them before its checks were over, and the log holds one record per
\* command that has issued its insert
InOrder ==
  /\ \A c \in Calls :
       LET call == calls[c]
       IN /\ IsPrefix(call.wrote, Steps(call.action))
          /\ Checking(call) => call.wrote = <<>>
          /\ (call.pc = "done" /\ ~call.success) => call.wrote = <<>>
          /\ (call.pc = "done" /\ call.success) => call.wrote = Steps(call.action)
  /\ Len(transactions)
       = Cardinality({c \in Calls : calls[c].wrote = Steps(calls[c].action)
                                      /\ calls[c].wrote # <<>>})

\* C37: fixed step order within a command. In every execution of a mutating
\* command all entity resolutions and validity checks (entity found,
\* sufficient stock, receipt <= remaining) come before the first write of
\* the command, and the insert of the TransactionRecord is its last write,
\* after its StockRecord, order and product writes: no TransactionRecord is
\* appended for a movement whose stock writes have not been issued.
C37_FixedStepOrder ==
  [][/\ InOrder'
     /\ store' # store =>
          \E c \in Calls :
            /\ ~Checking(calls[c])
            /\ Len(calls'[c].wrote) = Len(calls[c].wrote) + 1
            /\ \A d \in Calls \ {c} : calls'[d] = calls[d]
    ]_vars

\* a receipt and a transfer have both issued all their writes, the log last
C37_Witness ==
  \E c, d \in Calls :
    /\ calls[c].action = "RECEIVE_ORDER" /\ calls[c].pc = "done"
    /\ calls[c].wrote = <<"orders", "product_warehouse", "products", "transactions">>
    /\ calls[d].action = "TRANSFER_STOCK" /\ calls[d].pc = "done"
    /\ calls[d].wrote = <<"product_warehouse", "product_warehouse", "transactions">>
    /\ Len(transactions) = 2

----------------------------------------------------------------------------
(* Claim C38, on SpecStock.                                                *)

\* C38: RETURN_STOCK upsert. For a resolved product and warehouse and a
\* quantity q >= 1, RETURN_STOCK always succeeds; a StockRecord of the pair
\* that holds s becomes s + q, otherwise one is created with quantity q;
\* every other StockRecord is unchanged and exactly one `return`
\* TransactionRecord with amount q is appended.
C38_ReturnUpsert ==
  [][(cmd'.action = "RETURN_STOCK" /\ cmd'.hasParams /\ IsNum(cmd'.params.quantity)
        /\ cmd'.params.quantity.n >= 1) =>
       \A product \in findProduct(cmd'.params.product) \ {0},
          warehouse \in findWarehouse(cmd'.params.warehouse) \ {0} :
         LET k == <<product, warehouse>>
             q == cmd'.params.quantity.n
         IN /\ result'.success
            /\ DOMAIN product_warehouse' = DOMAIN product_warehouse \cup {k}
            /\ product_warehouse'[k] =
                 (IF k \in DOMAIN product_warehouse
                  THEN Num(Qty(product_warehouse, product, warehouse) + q)
                  ELSE Num(q))
            /\ \A other \in DOMAIN product_warehouse \ {k} :
                 product_warehouse'[other] = product_warehouse[other]
            /\ transactions' =
                 Append(transactions, Transaction(q, "return", product, warehouse, 0, 0))
    ]_vars

\* a return of MaxQty units of Ab to Ew, where it had no StockRecord, has
\* just created one
C38_Witness ==
  /\ cmd.action = "RETURN_STOCK" /\ cmd.hasParams
  /\ cmd.params.product = ab /\ cmd.params.warehouse = e
  /\ cmd.params.quantity = Num(MaxQty)
  /\ result.success
  /\ product_warehouse[<<1, 2>>] = Num(MaxQty)
  /\ transactions[Len(transactions)] = Transaction(MaxQty, "return", 1, 2, 0, 0)

----------------------------------------------------------------------------
(* Claim C39, on Spec.                                                     *)

Views ==
  {"VIEW_PRODUCTS", "VIEW_PRODUCTS_IN_WAREHOUSE", "VIEW_WAREHOUSES", "VIEW_SUPPLIERS",
   "VIEW_ORDERS", "VIEW_TRANSACTIONS", "VIEW_STOCK"}

\* C39: view handlers are read-only. No VIEW_PRODUCTS,
\* VIEW_PRODUCTS_IN_WAREHOUSE, VIEW_WAREHOUSES, VIEW_SUPPLIERS, VIEW_ORDERS,
\* VIEW_TRANSACTIONS or VIEW_STOCK command changes a product, warehouse,
\* supplier, StockRecord, order or TransactionRecord, whatever its
\* parameters, unresolvable filters included; VIEW_PRODUCTS_IN_WAREHOUSE
\* returns only rows whose stock is greater than 0.
C39_ViewsReadOnly ==
  [][cmd'.action \in Views =>
       /\ store' = store
       /\ (cmd'.action = "VIEW_PRODUCTS_IN_WAREHOUSE" /\ result'.success) =>
            \A i \in DOMAIN result'.data :
              /\ result'.data[i] \in DOMAIN product_warehouse
              /\ result'.data[i][2] \in findWarehouse(cmd'.params.warehouse)
              /\ Qty(product_warehouse, result'.data[i][1], result'.data[i][2]) > 0
    ]_vars

\* the products in Mw were just listed: the StockRecord of Ab, which holds
\* 0, is not among them
C39_Witness ==
  /\ cmd.action = "VIEW_PRODUCTS_IN_WAREHOUSE" /\ cmd.hasParams
  /\ cmd.params.warehouse = mw
  /\ result.success
  /\ <<1, 1>> \in DOMAIN product_warehouse
  /\ product_warehouse[<<1, 1>>] = Num(0)
  /\ \A i \in DOMAIN result.data : result.data[i] # <<1, 1>>

====
